---- MODULE Spec2Model ----
(***************************************************************************)
(* Model of the lotto-brain prediction server: the per-stream Brain        *)
(* (brain.js: loadBrain / saveBrain / learn), the refresh cycle of         *)
(* server.js (refreshData, verifyPredictions, trainBrain, the prediction   *)
(* cache), the prediction-history file (verifyPredictions,                 *)
(* logPredictionToHistory), the correlation booster                        *)
(* (correlation-analyzer.js: generateHybridPrediction), the /api/brain     *)
(* status request, a /predict or /evaluate request through getDrawsData,   *)
(* and the selection of 5 numbers (selectTopNumbers), sequential           *)
(* loadBrain() calls on rows with partial weights, the training pass       *)
(* (generatePredictions followed by trainBrain), the number scorer         *)
(* (brain.js: calculateNumberScores) and the refresh loop under fair       *)
(* scheduling.                                                             *)
(*                                                                         *)
(* Units: weights are integers in thousandths (150 = 0.15); time is in     *)
(* minutes; boosted scores are integers scaled by BoostScale.              *)
(***************************************************************************)
EXTENDS Integers, Sequences, FiniteSets, TLC

VARIABLES
  \* ---- brain.js ----
  brainCache,     \* brainCache[stream]: 0 (null) or the heap id of the cached brain object
  heap,           \* the brain objects alive in the process, by identity
  db,             \* ai_memory rows: db[stream] is a serialized blob or NoBlob
  learnTask,      \* the learn() calls in flight: position, stream, loaded object
  statusTask,     \* the /api/brain request's getBrainStatus() call: position, loaded row
  \* ---- server.js: refresh cycle ----
  now,            \* Date.now(), in minutes
  isRefreshing,
  refreshTask,    \* the refreshData() invocations: position and options
  timers,         \* number of pending setTimeout(refreshData) timers
  refreshStats,   \* [lastInserted, lastError, totalRefreshes]
  lastRefresh,    \* the time the last refresh cycle completed (0: null)
  lastVerificationTime,
  listening,      \* the server.listen callback has run
  postReply,      \* the answer of the last POST /refresh
  dataCache,      \* DATA_CACHE: [loaded, timestamp]
  predictionCache,\* the entry of one cache key: NoEntry or [timestamp, bornAt]
  served,         \* the last prediction answer: [cached, bornAt, insertDone]
  config,         \* CONFIG: [runAnalysisAfterScrape, autoRefresh (refreshInterval > 0)]
  \* ---- server.js: prediction history file ----
  historyFile,    \* predictions_history.json, newest first
  draws,          \* rows of the draws table
  verifyTask,     \* the verifyPredictions() invocations: position, local copy
  nextEntry,      \* number of entries appended so far (the identity of the next one)
  \* ---- correlation-analyzer.js ----
  hyb,            \* inputs and result of one generateHybridPrediction call
  \* ---- server.js: one request through getDrawsData ----
  req,            \* a /predict or /evaluate request: position, inputs, response
  \* ---- the selectors ----
  sel,            \* inputs and result of one selection of 5 numbers
  \* ---- brain.js: loadBrain and calculateNumberScores on their own ----
  load,           \* sequential loadBrain() calls: position, stream, row read, object returned
  scoring         \* inputs and result of one calculateNumberScores call

vars == <<brainCache, heap, db, learnTask, statusTask, now, isRefreshing, refreshTask, timers,
          refreshStats, lastRefresh, lastVerificationTime, listening, postReply, dataCache,
          predictionCache, served, config, historyFile, draws,
          verifyTask, nextEntry, hyb, req, sel, load, scoring>>

brainVars   == <<brainCache, heap, db, learnTask, statusTask>>
refreshVars == <<isRefreshing, refreshTask, timers, refreshStats, lastRefresh, listening,
                 postReply, dataCache, predictionCache, served, config>>
historyVars == <<historyFile, draws, verifyTask, nextEntry>>
clockVars   == <<now, lastVerificationTime>>
callVars    == <<hyb, req, sel, load, scoring>>

----------------------------------------------------------------------------
(* Generic helpers *)

Min(a, b) == IF a < b THEN a ELSE b
Max(a, b) == IF a > b THEN a ELSE b

RECURSIVE SumOver(_, _)
SumOver(f, S) == IF S = {} THEN 0
                 ELSE LET k == CHOOSE x \in S : TRUE
                      IN f[k] + SumOver(f, S \ {k})

----------------------------------------------------------------------------
(* brain.js *)

Streams == {"winning", "machine"}

TunedKeys == {"hot", "due", "correlation", "position", "balanced", "statistical", "finales"}
WeightKeys == TunedKeys \cup {"lstm"}

\* defaultBrain.weights, in thousandths
defaultWeights ==
  [k \in WeightKeys |->
     CASE k = "hot" -> 150
       [] k = "due" -> 150
       [] k = "correlation" -> 150
       [] k = "position" -> 100
       [] k = "balanced" -> 100
       [] k = "statistical" -> 200
       [] k = "finales" -> 100
       [] k = "lstm" -> 150]

DrawTypeIds == {1, 2}

\* stats.globalAccuracy and byType[..].accuracy are derived from the two
\* counters (hits / (draws * 5) * 100) and are not stored in the model.
\* realPerformance: the object carries a realPerformance property (defaultBrain
\* has none; the /api/brain handler sets it on the object it is given)
defaultBrain ==
  [weights |-> defaultWeights,
   totalDraws |-> 0,
   totalHits |-> 0,
   byType |-> [d \in DrawTypeIds |-> [totalDraws |-> 0, totalHits |-> 0]],
   history |-> << >>,
   lastAnalyzedDraw |-> 0,
   realPerformance |-> FALSE]

WeightMin == 50      \* 0.05
WeightMax == 600     \* 0.60
LearningRate == 50   \* LEARNING_RATE = 0.05
HistoryLimit == 50

NoBlob == [none |-> TRUE]

\* (w / sum).toFixed(2), as hundredths; an exact tie x.xx5 is decided by the
\* binary representation of the quotient, so either neighbour is possible (up)
RoundHundredths(w, sum, up) ==
  LET n  == 100 * w
      fl == n \div sum
      r2 == 2 * (n % sum)
  IN IF r2 > sum THEN fl + 1
     ELSE IF r2 < sum THEN fl
     ELSE IF up THEN fl + 1 ELSE fl

\* the adjustment of one key without Math.max(0.05, Math.min(0.60, ...))
AdjustWeightUnclamped(w, score4) ==
  IF score4 >= 12 THEN w + 2 * LearningRate
  ELSE IF score4 >= 4 THEN w + LearningRate
  ELSE w - (LearningRate \div 2)

\* learn(): "3. Adjust Weights" for one key
AdjustWeight(w, score4) ==
  LET raw == IF score4 >= 12 THEN w + 2 * LearningRate
             ELSE IF score4 >= 4 THEN w + LearningRate
             ELSE w - (LearningRate \div 2)
  IN Max(WeightMin, Min(WeightMax, raw))

\* learn(): "Normalize"
Normalize(weights, up) ==
  LET sum == SumOver(weights, DOMAIN weights)
  IN [k \in DOMAIN weights |-> 10 * RoundHundredths(weights[k], sum, up)]

\* learn(): adjust every key but lstm, then normalize.  stratScores are in
\* quarter points (4 = one exact match, 1 = one near miss); a key without a
\* prediction list scores 0.
TunedWeights(weights, stratScores, up) ==
  LET adjusted == [k \in DOMAIN weights |->
                     IF k = "lstm" THEN weights[k]
                     ELSE AdjustWeight(weights[k],
                                       IF k \in DOMAIN stratScores THEN stratScores[k] ELSE 0)]
  IN Normalize(adjusted, up)

\* history.push(...) without the eviction
PushHistoryUnbounded(history, entry) == Append(history, entry)

\* history.push(...); if (history.length > 50) history.shift()
PushHistory(history, entry) ==
  LET h == Append(history, entry)
  IN IF Len(h) > HistoryLimit THEN Tail(h) ELSE h

\* learn(): the synchronous body between `await loadBrain` and `await saveBrain`
\* drawTypeId = 0 stands for null (no per-type statistics); date, the time of
\* the call, is the call's number
LearnedBrain(brain, date, actualDraw, drawTypeId, globalMatches, stratScores, up) ==
  LET weights == TunedWeights(brain.weights, stratScores, up)
  IN [weights |-> weights,
      totalDraws |-> brain.totalDraws + 1,
      totalHits |-> brain.totalHits + globalMatches,
      byType |-> [d \in DrawTypeIds |->
                    IF d = drawTypeId
                    THEN [totalDraws |-> brain.byType[d].totalDraws + 1,
                          totalHits |-> brain.byType[d].totalHits + globalMatches]
                    ELSE brain.byType[d]],
      history |-> PushHistory(brain.history,
                              [date |-> date, draw |-> actualDraw, scores |-> stratScores,
                               globalMatch |-> globalMatches, newWeights |-> weights]),
      lastAnalyzedDraw |-> actualDraw,
      realPerformance |-> brain.realPerformance]

\* a blob without a weights property (brainData.weights is undefined)
NoWeights == [absent |-> TRUE]

\* the keys of a brain's weights object
KeysOf(brain) == IF brain.weights = NoWeights THEN {} ELSE DOMAIN brain.weights

\* loadBrain(): "MIGRATION LOGIC" - missing default keys are injected, and the
\* weights are renormalized (toFixed(2)) when a key was injected; the test
\* `brainData.weights && brainData.weights[key] === undefined` injects nothing
\* into a blob that has no weights object
MigratedBrain(blob, up) ==
  IF blob.weights = NoWeights THEN blob
  ELSE
  LET missing  == WeightKeys \ DOMAIN blob.weights
      injected == [k \in DOMAIN blob.weights \cup WeightKeys |->
                     IF k \in DOMAIN blob.weights THEN blob.weights[k]
                     ELSE defaultWeights[k]]
  IN [blob EXCEPT !.weights = IF missing = {} THEN blob.weights
                              ELSE Normalize(injected, up)]

\* The inputs of one learn() call.  globalMatches and the strategy scores are
\* what calculateNumberScores and the strategies yield on the training data.
MaxLearn == 2
LearnIds == 1..MaxLearn
ProfileOf(hi, mid) ==
  [k \in TunedKeys |-> IF k \in hi THEN 12 ELSE IF k \in mid THEN 5 ELSE 1]

\* three training situations: a draw of type 1 the ensemble partly found, a
\* draw of type 2 nobody found, and a draw learned without a draw type
\* (generatePredictions with type=null) that every strategy found
LearnInputs ==
  { [draw |-> 1, drawTypeId |-> 1, globalMatches |-> 3,
     scores |-> ProfileOf({"hot"}, {"due", "statistical"})],
    [draw |-> 2, drawTypeId |-> 2, globalMatches |-> 0,
     scores |-> ProfileOf({}, {})],
    [draw |-> 3, drawTypeId |-> 0, globalMatches |-> 5,
     scores |-> ProfileOf(TunedKeys, {})] }

\* base: stats.totalDraws of the brain the call loaded, before its own update
IdleLearn == [pc |-> "idle", stream |-> "winning", obj |-> 0, blob |-> NoBlob, base |-> 0]

\* learn() calls are numbered in the order they are made
NextCall(t) ==
  /\ learnTask[t].pc = "idle"
  /\ \A u \in LearnIds : u < t => learnTask[u].pc # "idle"

\* the objects and the calls after learn() call t has run its body on the
\* cached brain of stream s
CachedLearn(objects, tasks, t, s, in, up) ==
  LET o == brainCache[s]
      b == LearnedBrain(objects[o], t, in.draw, in.drawTypeId, in.globalMatches, in.scores, up)
  IN [heap |-> [objects EXCEPT ![o] = b],
      learnTask |-> [tasks EXCEPT ![t] =
                       [pc |-> "saving", stream |-> s, obj |-> o, blob |-> b,
                        base |-> objects[o].totalDraws]]]

\* learn() when loadBrain() finds brainCache[type] set: the awaited call
\* resolves without leaving the tick, so the body runs on the cached object;
\* saveBrain() then issues the upsert of the serialized brain.
LearnCached(t, s, in, up) ==
  /\ NextCall(t)
  /\ brainCache[s] # 0
  /\ LET after == CachedLearn(heap, learnTask, t, s, in, up)
     IN /\ heap' = after.heap
        /\ learnTask' = after.learnTask
  /\ UNCHANGED <<brainCache, db, statusTask>>

\* learn() when brainCache[type] is null: loadBrain() sends the select
LearnMiss(t, s) ==
  /\ NextCall(t)
  /\ brainCache[s] = 0
  /\ learnTask' = [learnTask EXCEPT ![t] = [@ EXCEPT !.pc = "loading", !.stream = s]]
  /\ UNCHANGED <<brainCache, heap, db, statusTask>>

\* the store answers the select with the row as it is now, or with an error
DbSelect(t, ok) ==
  /\ learnTask[t].pc = "loading"
  /\ learnTask' = [learnTask EXCEPT ![t] =
                     [@ EXCEPT !.pc = "fetched",
                               !.blob = IF ok THEN db[learnTask[t].stream] ELSE NoBlob]]
  /\ UNCHANGED <<brainCache, heap, db, statusTask>>

\* the select's answer arrives: loadBrain() builds a new object from the row
\* and caches it (or returns an uncached copy of defaultBrain), and learn()
\* runs its body on that object and calls saveBrain().
LoadReturn(t, in, up) ==
  /\ learnTask[t].pc = "fetched"
  /\ LET s == learnTask[t].stream
         loaded == IF learnTask[t].blob # NoBlob
                   THEN MigratedBrain(learnTask[t].blob, up)
                   ELSE defaultBrain
         o == Len(heap) + 1
         b == LearnedBrain(loaded, t, in.draw, in.drawTypeId, in.globalMatches, in.scores, up)
     IN /\ heap' = Append(heap, b)
        /\ brainCache' = [brainCache EXCEPT ![s] = o]
        /\ learnTask' = [learnTask EXCEPT ![t] =
                           [pc |-> "saving", stream |-> s, obj |-> o, blob |-> b,
                            base |-> loaded.totalDraws]]
  /\ UNCHANGED <<db, statusTask>>

\* saveBrain() with an upsert that is not keyed by the stream
SaveReturnAnyRow(t, ok) ==
  /\ learnTask[t].pc = "saving"
  /\ db' = IF ok THEN [s \in Streams |-> learnTask[t].blob] ELSE db
  /\ learnTask' = [learnTask EXCEPT ![t] = [@ EXCEPT !.pc = "done"]]
  /\ UNCHANGED <<brainCache, heap, statusTask>>

\* saveBrain(): the upsert reaches the store, or fails (the error is logged)
SaveReturn(t, ok) ==
  /\ learnTask[t].pc = "saving"
  /\ db' = IF ok THEN [db EXCEPT ![learnTask[t].stream] = learnTask[t].blob] ELSE db
  /\ learnTask' = [learnTask EXCEPT ![t] = [@ EXCEPT !.pc = "done"]]
  /\ UNCHANGED <<brainCache, heap, statusTask>>

\* a blob a previous run of the server has stored: one Learn from the defaults
StoredBlob ==
  LearnedBrain(defaultBrain, 0, 1, 1, 3, ProfileOf({"hot"}, {"due", "statistical"}), TRUE)

\* a blob stored after many Learn steps of earlier runs: the history is full
\* (entries dated before this run, oldest first), and the hot strategy, found
\* right again and again, holds most of the weight
FullBlob ==
  [StoredBlob EXCEPT
     !.weights = [k \in WeightKeys |-> IF k = "hot" THEN 580 ELSE 60],
     !.totalDraws = HistoryLimit,
     !.history = [i \in 1..HistoryLimit |->
                    [date |-> i - HistoryLimit, draw |-> 1, scores |-> ProfileOf({}, {}),
                     globalMatch |-> 0, newWeights |-> StoredBlob.weights]]]

InitialBlobs == {NoBlob, StoredBlob, FullBlob}

\* the /api/brain request: getBrainStatus() has no argument, so it loads the
\* winning brain
IdleStatus == [pc |-> "idle", obj |-> 0, blob |-> NoBlob]

\* status.realPerformance = {...}: a property set on the object at heap id o
WithRealPerformance(h, o) == [h EXCEPT ![o] = [@ EXCEPT !.realPerformance = TRUE]]

\* /api/brain when loadBrain() finds brainCache.winning set: getBrainStatus()
\* returns the cached object, and the handler sets realPerformance on it when
\* the prediction history file has entries (hasHistory)
StatusCached(hasHistory) ==
  /\ statusTask.pc = "idle"
  /\ brainCache["winning"] # 0
  /\ heap' = IF hasHistory THEN WithRealPerformance(heap, brainCache["winning"]) ELSE heap
  /\ statusTask' = [statusTask EXCEPT !.pc = "done", !.obj = brainCache["winning"]]
  /\ UNCHANGED <<brainCache, db, learnTask>>

\* /api/brain when brainCache.winning is null: loadBrain() sends the select
StatusMiss ==
  /\ statusTask.pc = "idle"
  /\ brainCache["winning"] = 0
  /\ statusTask' = [statusTask EXCEPT !.pc = "loading"]
  /\ UNCHANGED <<brainCache, heap, db, learnTask>>

\* the store answers the select of the status request
StatusDbSelect(ok) ==
  /\ statusTask.pc = "loading"
  /\ statusTask' = [statusTask EXCEPT !.pc = "fetched",
                                      !.blob = IF ok THEN db["winning"] ELSE NoBlob]
  /\ UNCHANGED <<brainCache, heap, db, learnTask>>

\* the answer arrives: loadBrain() caches and returns the object built from
\* the row, or returns a copy of defaultBrain that nothing else refers to;
\* the handler sets realPerformance on what it was given and serializes it
StatusReturn(hasHistory, up) ==
  /\ statusTask.pc = "fetched"
  /\ IF statusTask.blob # NoBlob
     THEN LET o == Len(heap) + 1
              h == Append(heap, MigratedBrain(statusTask.blob, up))
          IN /\ heap' = IF hasHistory THEN WithRealPerformance(h, o) ELSE h
             /\ brainCache' = [brainCache EXCEPT !["winning"] = o]
             /\ statusTask' = [statusTask EXCEPT !.pc = "done", !.obj = o]
     ELSE /\ statusTask' = [statusTask EXCEPT !.pc = "done"]
          /\ UNCHANGED <<heap, brainCache>>
  /\ UNCHANGED <<db, learnTask>>

\* ---- loadBrain(type) on its own, one call after the other
MaxLoads == 2

\* a blob stored before the lstm strategy existed, a blob whose weights object
\* is empty, and a blob that has no weights object
PartialBlob == [StoredBlob EXCEPT !.weights = [k \in TunedKeys |-> StoredBlob.weights[k]]]
EmptyWeightsBlob == [StoredBlob EXCEPT !.weights = << >>]
WeightlessBlob == [StoredBlob EXCEPT !.weights = NoWeights]

LoadableBlobs == {NoBlob, StoredBlob, PartialBlob, EmptyWeightsBlob, WeightlessBlob}

NoLoad == [pc |-> "idle", stream |-> "winning", blob |-> NoBlob, result |-> 0, calls |-> 0]

CanLoad == load.pc \in {"idle", "returned"} /\ load.calls < MaxLoads

\* if (brainCache[type]) return brainCache[type]
LoadBrainCached(s) ==
  /\ CanLoad
  /\ brainCache[s] # 0
  /\ load' = [load EXCEPT !.pc = "returned", !.stream = s, !.result = brainCache[s],
                          !.calls = @ + 1]
  /\ UNCHANGED brainVars

\* the cache has no brain of the stream: the select is sent
LoadBrainMiss(s) ==
  /\ CanLoad
  /\ brainCache[s] = 0
  /\ load' = [load EXCEPT !.pc = "loading", !.stream = s, !.result = 0, !.calls = @ + 1]
  /\ UNCHANGED brainVars

\* the store answers with the row, or with an error or no row (data is null)
LoadBrainDbAnswer(ok) ==
  /\ load.pc = "loading"
  /\ load' = [load EXCEPT !.pc = "fetched", !.blob = IF ok THEN db[load.stream] ELSE NoBlob]
  /\ UNCHANGED brainVars

\* the rest of loadBrain(): the migrated row is cached and returned, or a copy
\* of defaultBrain is returned and nothing is cached
LoadBrainReturn(up) ==
  /\ load.pc = "fetched"
  /\ LET o == Len(heap) + 1
     IN /\ heap' = Append(heap, IF load.blob # NoBlob THEN MigratedBrain(load.blob, up)
                                ELSE defaultBrain)
        /\ brainCache' = IF load.blob # NoBlob THEN [brainCache EXCEPT ![load.stream] = o]
                         ELSE brainCache
        /\ load' = [load EXCEPT !.pc = "returned", !.result = o]
  /\ UNCHANGED <<db, learnTask, statusTask>>

----------------------------------------------------------------------------
(* server.js: the prediction history file and verifyPredictions *)

Day == 24 * 60
SevenDays == 7 * Day
ThrottleWindow == 1            \* 60000 ms
WindowFrom == 0 - 24 * 60      \* diffHours >= -24
WindowTo == 72 * 60            \* diffHours < 72
HistoryFileLimit == 1000

\* new Date(x).toISOString().split('T')[0]: the calendar day of an instant
DateOf(t) == (t \div Day) * Day

NoResult == [none |-> TRUE]
NoNumbers == << >>             \* null machineNumbers / hybridNumbers / machine set

Includes(seq, n) == \E i \in 1..Len(seq) : seq[i] = n
AbsDiff(a, b) == IF a >= b THEN a - b ELSE b - a

\* predicted.filter(n => actual.includes(n))
Matches(predicted, actual) == SelectSeq(predicted, LAMBDA n : Includes(actual, n))

\* the near-miss filter without `if (actual.includes(n)) return false`, on
\* distance at most 1
NearMissesWithin(predicted, actual) ==
  SelectSeq(predicted, LAMBDA n :
     \E i \in 1..Len(actual) : AbsDiff(actual[i], n) <= 1)

\* predicted.filter(n => !actual.includes(n) && actual.some(a => |a - n| === 1))
NearMisses(predicted, actual) ==
  SelectSeq(predicted, LAMBDA n :
     /\ ~Includes(actual, n)
     /\ \E i \in 1..Len(actual) : AbsDiff(actual[i], n) = 1)

\* the draws query of verifyPredictions: .gte('draw_date', day of sevenDaysAgo)
\* .order('draw_date', {ascending: false})
RECURSIVE OrderDesc(_)
OrderDesc(S) ==
  IF S = {} THEN << >>
  ELSE LET d == CHOOSE x \in S :
                  \A y \in S : \/ x.draw_date > y.draw_date
                                \/ (x.draw_date = y.draw_date /\ x.draw_type_id <= y.draw_type_id)
       IN <<d>> \o OrderDesc(S \ {d})

RecentDraws(rows, sevenDaysAgo) ==
  OrderDesc({d \in rows : d.draw_date >= DateOf(sevenDaysAgo)})

\* the predicate of recentDraws.find(...) in verifyPredictions
IsCandidate(d, pred) ==
  /\ d.draw_type_id = pred.drawTypeId
  /\ \/ d.draw_date >= pred.timestamp
     \/ d.draw_date = DateOf(pred.timestamp)

\* recentDraws.find(...): index of the first row satisfying the predicate, 0 if none
TargetIndex(recent, pred) ==
  IF \E i \in 1..Len(recent) : IsCandidate(recent[i], pred)
  THEN CHOOSE i \in 1..Len(recent) :
          /\ IsCandidate(recent[i], pred)
          /\ \A j \in 1..(i - 1) : ~IsCandidate(recent[j], pred)
  ELSE 0

\* the window test without its upper end
InWindowOpenEnded(d, pred) ==
  d.draw_date - pred.timestamp >= WindowFrom

\* if (diffHours >= -24 && diffHours < 72)
InWindow(d, pred) ==
  LET diff == d.draw_date - pred.timestamp
  IN diff >= WindowFrom /\ diff < WindowTo

\* pred.machineResult / pred.hybridResult = {actual, matchCount, matches, nearMisses}
ComparedWith(predicted, actual) ==
  [actual |-> actual,
   matchCount |-> Len(Matches(predicted, actual)),
   matches |-> Matches(predicted, actual),
   nearMisses |-> NearMisses(predicted, actual)]

\* pred.result = {drawDate, actual, matchCount, matches, nearMisses}
ResultOf(predicted, drawDate, actual) ==
  [drawDate |-> drawDate, actual |-> actual,
   matchCount |-> Len(Matches(predicted, actual)),
   matches |-> Matches(predicted, actual),
   nearMisses |-> NearMisses(predicted, actual)]

\* the body of the matching loop for one history entry
VerifiedEntry(pred, recent) ==
  LET i == TargetIndex(recent, pred)
  IN IF pred.result # NoResult \/ i = 0 THEN pred
     ELSE IF ~InWindow(recent[i], pred) THEN pred
     ELSE LET d == recent[i]
          IN [pred EXCEPT
                !.result = ResultOf(pred.predictedNumbers, d.draw_date, d.winning),
                !.machineResult =
                   IF pred.machineNumbers # NoNumbers /\ d.machine # NoNumbers
                   THEN ComparedWith(pred.machineNumbers, d.machine)
                   ELSE @,
                !.hybridResult =
                   IF pred.hybridNumbers # NoNumbers
                   THEN ComparedWith(pred.hybridNumbers, d.winning)
                   ELSE @]

\* history.filter(p => !p.result && new Date(p.timestamp) > sevenDaysAgo)
IsUnverified(p, sevenDaysAgo) == p.result = NoResult /\ p.timestamp > sevenDaysAgo

\* the matching loop over the unverified entries of the copy read from the file
VerifiedHistory(history, sevenDaysAgo, recent) ==
  [i \in 1..Len(history) |->
     IF IsUnverified(history[i], sevenDaysAgo)
     THEN VerifiedEntry(history[i], recent)
     ELSE history[i]]

MaxVerify == 2
VerifyIds == 1..MaxVerify
MaxEntries == 2
MaxDraws == 2
MaxDays == 3
MaxMinutes == 1
StartTime == 10 * Day

IdleVerify == [pc |-> "idle", history |-> << >>, sevenDaysAgo |-> 0, recent |-> << >>]

\* what a served prediction logs: main numbers, and machine / hybrid numbers
\* when the machine stream produced a prediction; drawTypeId 0 is null (all types)
PredictionInputs ==
  { [drawTypeId |-> 1, predictedNumbers |-> <<7, 15, 23, 42, 71>>,
     machineNumbers |-> <<10, 20, 30, 40, 50>>, hybridNumbers |-> <<7, 16, 23, 42, 80>>],
    [drawTypeId |-> 2, predictedNumbers |-> <<1, 2, 30, 60, 90>>,
     machineNumbers |-> NoNumbers, hybridNumbers |-> NoNumbers] }

\* what the scraper inserts for a day: the type, the winning numbers and the
\* machine numbers (absent as a group)
DrawInputs ==
  { [draw_type_id |-> 1, winning |-> <<7, 14, 23, 41, 90>>, machine |-> <<10, 21, 33, 40, 77>>],
    [draw_type_id |-> 2, winning |-> <<2, 30, 45, 61, 88>>, machine |-> NoNumbers] }

\* the file logPredictionToHistory() writes for prediction p: the new entry
\* first, cut to 1000
HistoryWith(p) ==
  LET entry == [id |-> nextEntry + 1, timestamp |-> now,
                drawTypeId |-> p.drawTypeId,
                predictedNumbers |-> p.predictedNumbers,
                machineNumbers |-> p.machineNumbers,
                hybridNumbers |-> p.hybridNumbers,
                result |-> NoResult, machineResult |-> NoResult,
                hybridResult |-> NoResult]
      h == <<entry>> \o historyFile
  IN IF Len(h) > HistoryFileLimit THEN SubSeq(h, 1, HistoryFileLimit) ELSE h

\* logPredictionToHistory() without the cut to 1000
LogPredictionUncut(p) ==
  /\ nextEntry < MaxEntries
  /\ DateOf(now) = StartTime
  /\ historyFile' = <<[id |-> nextEntry + 1, timestamp |-> now,
                       drawTypeId |-> p.drawTypeId,
                       predictedNumbers |-> p.predictedNumbers,
                       machineNumbers |-> p.machineNumbers,
                       hybridNumbers |-> p.hybridNumbers,
                       result |-> NoResult, machineResult |-> NoResult,
                       hybridResult |-> NoResult]>> \o historyFile
  /\ nextEntry' = nextEntry + 1
  /\ UNCHANGED <<draws, verifyTask, now, lastVerificationTime>>

\* logPredictionToHistory(): read, unshift, cut to 1000, write - synchronous.
\* The predictions of the model are served on its first day.
LogPrediction(p) ==
  /\ nextEntry < MaxEntries
  /\ DateOf(now) = StartTime
  /\ historyFile' = HistoryWith(p)
  /\ nextEntry' = nextEntry + 1
  /\ UNCHANGED <<draws, verifyTask, now, lastVerificationTime>>

\* the scraper inserts today's draw of a type (one row per type and day)
InsertDraw(d) ==
  /\ Cardinality(draws) < MaxDraws
  /\ ~\E x \in draws : x.draw_type_id = d.draw_type_id /\ x.draw_date = DateOf(now)
  /\ draws' = draws \cup {[draw_date |-> DateOf(now), draw_type_id |-> d.draw_type_id,
                           winning |-> d.winning, machine |-> d.machine]}
  /\ UNCHANGED <<historyFile, verifyTask, nextEntry, now, lastVerificationTime>>

\* time passes: a minute (told apart on the first day only), or to the next day
Tick(step) ==
  /\ \/ step = "minute" /\ DateOf(now) = StartTime /\ now % Day < MaxMinutes
     \/ step = "day" /\ now \div Day < (StartTime \div Day) + MaxDays
  /\ now' = IF step = "day" THEN DateOf(now) + Day ELSE now + 1
  /\ UNCHANGED <<historyFile, draws, verifyTask, nextEntry, lastVerificationTime>>

\* verifyPredictions(force): the throttle test
Throttled(force) == ~force /\ now - lastVerificationTime < ThrottleWindow

\* verifyPredictions() up to its await: throttle, read the file, pick the
\* unverified entries of the last 7 days, send the draws query
VerifyStart(v, force) ==
  /\ verifyTask[v].pc = "idle"
  /\ \A u \in VerifyIds : u < v => verifyTask[u].pc # "idle"
  /\ IF Throttled(force)
     THEN /\ verifyTask' = [verifyTask EXCEPT ![v] = [@ EXCEPT !.pc = "done"]]
          /\ UNCHANGED lastVerificationTime
     ELSE /\ lastVerificationTime' = now
          /\ LET sevenDaysAgo == now - SevenDays
                 some == \E i \in 1..Len(historyFile) :
                            IsUnverified(historyFile[i], sevenDaysAgo)
             IN verifyTask' = [verifyTask EXCEPT ![v] =
                   IF some
                   THEN [pc |-> "querying", history |-> historyFile,
                         sevenDaysAgo |-> sevenDaysAgo, recent |-> << >>]
                   ELSE [@ EXCEPT !.pc = "done"]]
  /\ UNCHANGED <<historyFile, draws, nextEntry, now>>

\* the store answers the draws query with the rows it holds now, or fails
\* (data is null)
VerifyDbAnswer(v, ok) ==
  /\ verifyTask[v].pc = "querying"
  /\ verifyTask' = [verifyTask EXCEPT ![v] =
        [@ EXCEPT !.pc = "fetched",
                  !.recent = IF ok THEN RecentDraws(draws, verifyTask[v].sevenDaysAgo)
                             ELSE << >>]]
  /\ UNCHANGED <<historyFile, draws, nextEntry, now, lastVerificationTime>>

\* the answer arrives: match the unverified entries of the copy, and write the
\* copy back when an entry was updated
VerifyFinish(v) ==
  /\ verifyTask[v].pc = "fetched"
  /\ LET t == verifyTask[v]
         h == VerifiedHistory(t.history, t.sevenDaysAgo, t.recent)
     IN /\ historyFile' = IF Len(t.recent) > 0 /\ h # t.history THEN h ELSE historyFile
        /\ verifyTask' = [verifyTask EXCEPT ![v] = [@ EXCEPT !.pc = "done", !.history = h]]
  /\ UNCHANGED <<draws, nextEntry, now, lastVerificationTime>>

----------------------------------------------------------------------------
(* server.js: the refresh cycle, the draw cache and the prediction cache *)

PredictionMaxAge == 10         \* predictionCache.maxAge, 10 minutes
DataCacheTTL == 60             \* DATA_CACHE.TTL, 1 hour

MaxRefresh == 3
RefreshIds == 1..MaxRefresh
MaxTenMinutes == 1

NoStats == [lastInserted |-> 0, lastError |-> FALSE, totalRefreshes |-> 0]
EmptyDataCache == [loaded |-> FALSE, timestamp |-> 0, draws |-> << >>]

GlobalLimit == 5000            \* .limit(5000) of the global cache query

Reverse(seq) == [i \in 1..Len(seq) |-> seq[Len(seq) + 1 - i]]

\* the row as getDrawsData() hands it out: numbers_drawn is the list of the
\* winning numbers that are not null
WithNumbersDrawn(d) ==
  [draw_date |-> d.draw_date, draw_type_id |-> d.draw_type_id,
   winning |-> d.winning, machine |-> d.machine, numbers_drawn |-> d.winning]

MapRows(seq) == [i \in 1..Len(seq) |-> WithNumbersDrawn(seq[i])]

\* DATA_CACHE after a reload at time t: the newest 5000 rows, stored oldest first
LoadedCache(rows, t) ==
  LET newest == OrderDesc(rows)
      kept == SubSeq(newest, 1, Min(Len(newest), GlobalLimit))
  IN [loaded |-> TRUE, timestamp |-> t, draws |-> MapRows(Reverse(kept))]
NoEntry == [none |-> TRUE]
NoAnswer == [cached |-> FALSE, bornAt |-> 0, insertDone |-> 0]

\* verified: a verification pass ran in this cycle
IdleCycle == [pc |-> "idle", forceTrain |-> FALSE, inserted |-> 0, verified |-> FALSE]

\* refreshData() invocations are numbered in the order they are made
NextRefreshCall(r) ==
  /\ refreshTask[r].pc = "idle"
  /\ \A q \in RefreshIds : q < r => refreshTask[q].pc # "idle"

\* the cycles that are between `isRefreshing = true` and the finally block
InProgress == {r \in RefreshIds :
                 refreshTask[r].pc \in {"scraping", "analyzing", "verifying", "training"}}

\* number of refreshData() invocations made so far
CallsMade == Cardinality({r \in RefreshIds : refreshTask[r].pc # "idle"})

\* the latest completed cycle whose scrape inserted rows (0: none)
InsertDone ==
  LET S == {r \in RefreshIds : refreshTask[r].pc = "done" /\ refreshTask[r].inserted > 0}
  IN IF S = {} THEN 0 ELSE CHOOSE r \in S : \A q \in S : q <= r

\* refreshData() without the isRefreshing test
RefreshDataUnguarded(r, forceTrain) ==
  /\ isRefreshing' = TRUE
  /\ refreshTask' = [refreshTask EXCEPT ![r] =
                       [@ EXCEPT !.pc = "scraping", !.forceTrain = forceTrain]]

\* refreshData(): the isRefreshing test and, when it passes, the start of the scraper
RefreshData(r, forceTrain) ==
  IF isRefreshing
  THEN /\ refreshTask' = [refreshTask EXCEPT ![r] = [@ EXCEPT !.pc = "skipped"]]
       /\ UNCHANGED isRefreshing
  ELSE /\ isRefreshing' = TRUE
       /\ refreshTask' = [refreshTask EXCEPT ![r] =
                            [@ EXCEPT !.pc = "scraping", !.forceTrain = forceTrain]]

\* scheduleNextRefresh(): one more setTimeout(refreshData) when auto-refresh is on
ScheduledTimers(n) == IF config.autoRefresh THEN n + 1 ELSE n

\* a finally block that leaves out scheduleNextRefresh()
RefreshFinallyUnscheduled(n) ==
  /\ isRefreshing' = FALSE
  /\ timers' = n

\* the finally block of refreshData()
RefreshFinally(n) ==
  /\ isRefreshing' = FALSE
  /\ timers' = ScheduledTimers(n)

\* the catch block of refreshData() without the finally block
RefreshFailedNoFinally(r) ==
  /\ refreshTask' = [refreshTask EXCEPT ![r] = [IdleCycle EXCEPT !.pc = "failed"]]
  /\ refreshStats' = [refreshStats EXCEPT !.lastError = TRUE]
  /\ UNCHANGED <<lastRefresh, isRefreshing, timers>>

\* the catch block of refreshData()
RefreshFailed(r) ==
  /\ refreshTask' = [refreshTask EXCEPT ![r] = [IdleCycle EXCEPT !.pc = "failed"]]
  /\ refreshStats' = [refreshStats EXCEPT !.lastError = TRUE]
  /\ UNCHANGED lastRefresh
  /\ RefreshFinally(timers)

\* the end of the try block of refreshData()
RefreshCompleted(r, inserted) ==
  /\ refreshTask' = [refreshTask EXCEPT ![r] =
                       [IdleCycle EXCEPT !.pc = "done", !.inserted = inserted]]
  /\ lastRefresh' = now
  /\ RefreshFinally(timers)

\* verifyPredictions() as awaited by refreshData(): the position the cycle is
\* in after the call (throttled: the call returns at once and trainBrain starts)
AfterVerifyCall(r, inserted) ==
  /\ refreshTask' = [refreshTask EXCEPT ![r] =
        [@ EXCEPT !.pc = IF Throttled(FALSE) THEN "training" ELSE "verifying",
                  !.inserted = inserted,
                  !.verified = ~Throttled(FALSE)]]
  /\ lastVerificationTime' = IF Throttled(FALSE) THEN lastVerificationTime ELSE now

\* server.listen callback: the initial refresh when auto-refresh is enabled
ServerListen(r) ==
  /\ ~listening
  /\ listening' = TRUE
  /\ IF config.autoRefresh
     THEN NextRefreshCall(r) /\ RefreshData(r, FALSE)
     ELSE r = 1 /\ UNCHANGED <<refreshTask, isRefreshing>>
  /\ UNCHANGED <<timers, refreshStats, lastRefresh, postReply, dataCache, predictionCache,
                 served, config, now, lastVerificationTime>>

\* a setTimeout(refreshData) timer fires
TimerFire(r) ==
  /\ listening
  /\ timers > 0
  /\ NextRefreshCall(r)
  /\ timers' = timers - 1
  /\ RefreshData(r, FALSE)
  /\ UNCHANGED <<refreshStats, lastRefresh, listening, postReply, dataCache, predictionCache,
                 served, config, now, lastVerificationTime>>

\* POST /refresh without the isRefreshing test of the handler
PostRefreshUnchecked(r, forceTrain) ==
  /\ listening
  /\ NextRefreshCall(r)
  /\ postReply' = "started"
  /\ RefreshData(r, forceTrain)
  /\ UNCHANGED <<timers, refreshStats, lastRefresh, listening, dataCache, predictionCache,
                 served, config, now, lastVerificationTime>>

\* POST /refresh?force_train=...
PostRefresh(r, forceTrain) ==
  /\ listening
  /\ NextRefreshCall(r)
  /\ IF isRefreshing
     THEN /\ postReply' = "busy"
          /\ UNCHANGED <<refreshTask, isRefreshing>>
     ELSE /\ postReply' = "started"
          /\ RefreshData(r, forceTrain)
  /\ UNCHANGED <<timers, refreshStats, lastRefresh, listening, dataCache, predictionCache,
                 served, config, now, lastVerificationTime>>

\* the scraper subprocess exits: non-zero code, or the number of inserted rows
ScraperExit(r, ok, inserted) ==
  /\ refreshTask[r].pc = "scraping"
  /\ IF ~ok
     THEN /\ RefreshFailed(r)
          /\ UNCHANGED <<dataCache, lastVerificationTime>>
     ELSE /\ refreshStats' = [refreshStats EXCEPT
                                !.lastInserted = inserted,
                                !.lastError = IF config.runAnalysisAfterScrape
                                                 /\ (inserted > 0 \/ refreshTask[r].forceTrain)
                                              THEN @ ELSE FALSE,
                                !.totalRefreshes = IF config.runAnalysisAfterScrape
                                                      /\ (inserted > 0 \/ refreshTask[r].forceTrain)
                                                   THEN @ ELSE @ + 1]
          /\ dataCache' = IF inserted > 0 THEN EmptyDataCache ELSE dataCache
          /\ IF config.runAnalysisAfterScrape /\ inserted > 0
             THEN /\ refreshTask' = [refreshTask EXCEPT ![r] =
                                       [@ EXCEPT !.pc = "analyzing", !.inserted = inserted]]
                  /\ UNCHANGED <<isRefreshing, timers, lastRefresh, lastVerificationTime>>
             ELSE IF config.runAnalysisAfterScrape /\ refreshTask[r].forceTrain
             THEN /\ AfterVerifyCall(r, inserted)
                  /\ UNCHANGED <<isRefreshing, timers, lastRefresh>>
             ELSE /\ RefreshCompleted(r, inserted)
                  /\ UNCHANGED lastVerificationTime
  /\ UNCHANGED <<listening, postReply, predictionCache, served, config, now>>

\* the analyzer subprocess exits; on success refreshData() calls verifyPredictions()
AnalyzerExit(r, ok) ==
  /\ refreshTask[r].pc = "analyzing"
  /\ IF ~ok
     THEN /\ RefreshFailed(r)
          /\ UNCHANGED lastVerificationTime
     ELSE /\ AfterVerifyCall(r, refreshTask[r].inserted)
          /\ UNCHANGED <<isRefreshing, timers, refreshStats, lastRefresh>>
  /\ UNCHANGED <<listening, postReply, dataCache, predictionCache, served, config, now>>

\* the verification pass awaited by refreshData() ends; trainBrain() starts
VerifyPassDone(r) ==
  /\ refreshTask[r].pc = "verifying"
  /\ refreshTask' = [refreshTask EXCEPT ![r] = [@ EXCEPT !.pc = "training"]]
  /\ UNCHANGED <<isRefreshing, timers, refreshStats, lastRefresh, listening, postReply,
                 dataCache, predictionCache, served, config, now, lastVerificationTime>>

\* getDrawsData(): the global cache is reloaded when empty or expired, and a
\* reload clears the prediction cache
DataCacheStale == ~dataCache.loaded \/ now - dataCache.timestamp > DataCacheTTL

\* trainBrain() ends (typesOk: the draw types and the draws could be read, so
\* getDrawsData() ran for a type and the Learn calls were dispatched), and
\* refreshData() completes
TrainDone(r, typesOk) ==
  /\ refreshTask[r].pc = "training"
  /\ IF typesOk /\ DataCacheStale
     THEN /\ dataCache' = LoadedCache(draws, now)
          /\ predictionCache' = NoEntry
     ELSE UNCHANGED <<dataCache, predictionCache>>
  /\ refreshStats' = [refreshStats EXCEPT !.lastError = FALSE, !.totalRefreshes = @ + 1]
  /\ RefreshCompleted(r, refreshTask[r].inserted)
  /\ UNCHANGED <<listening, postReply, served, config, now, lastVerificationTime>>

\* GET /predict through getPredictionWithCache(): a fresh cache entry answers
\* the request; otherwise generatePredictions() runs (it reads the draws
\* through getDrawsData()) and its result is cached
PredictRequest(dbOk) ==
  /\ listening
  /\ IF predictionCache # NoEntry /\ now - predictionCache.timestamp < PredictionMaxAge
     THEN /\ served' = [cached |-> TRUE, bornAt |-> predictionCache.bornAt,
                        insertDone |-> InsertDone]
          /\ UNCHANGED <<dataCache, predictionCache>>
     ELSE /\ dataCache' = IF DataCacheStale /\ dbOk
                          THEN LoadedCache(draws, now) ELSE dataCache
          /\ predictionCache' = [timestamp |-> now, bornAt |-> CallsMade]
          /\ served' = [cached |-> FALSE, bornAt |-> CallsMade, insertDone |-> InsertDone]
  /\ UNCHANGED <<isRefreshing, refreshTask, timers, refreshStats, lastRefresh, listening, postReply,
                 config, now, lastVerificationTime>>

\* GET /api/brain: the lazy, throttled verifyPredictions() call
BrainStatusRequest ==
  /\ listening
  /\ ~Throttled(FALSE)
  /\ lastVerificationTime' = now
  /\ UNCHANGED <<isRefreshing, refreshTask, timers, refreshStats, lastRefresh, listening, postReply,
                 dataCache, predictionCache, served, config, now>>

\* time passes, in steps of ten minutes
RefreshTick ==
  /\ now - StartTime < 10 * MaxTenMinutes
  /\ now' = now + 10
  /\ UNCHANGED <<isRefreshing, refreshTask, timers, refreshStats, lastRefresh, listening, postReply,
                 dataCache, predictionCache, served, config, lastVerificationTime>>

----------------------------------------------------------------------------
(* correlation-analyzer.js: the correlation booster *)

Numbers == 1..90
TopN == 10                     \* getTopCorrelatedWinning(..., topN = 10)
BoostNum == 13                 \* boostFactor 1.3 = 13 / 10
BoostDen == 10
BoostScale == 10 * 10 * 10 * 10 * 10   \* boosted scores are kept as score * 10^5

\* a draw enters the matrix when both groups have their five numbers
IsComplete(d) == Len(d.machine) = 5 /\ Len(d.winning) = 5

\* analyzeWinningMachineCorrelation(): M[m][w] = number of complete draws where
\* machine number m and winning number w occur together (0: no such key)
analyzeWinningMachineCorrelation(ds) ==
  [m \in Numbers |-> [w \in Numbers |->
     Cardinality({i \in 1..Len(ds) :
        /\ IsComplete(ds[i])
        /\ Includes(ds[i].machine, m)
        /\ Includes(ds[i].winning, w)})]]

\* entries sorted by count descending; the sort is stable over the ascending
\* key order of Object.entries
RECURSIVE ByCountDesc(_, _)
ByCountDesc(row, S) ==
  IF S = {} THEN << >>
  ELSE LET w == CHOOSE x \in S :
                  \A y \in S : \/ row[x] > row[y]
                                \/ (row[x] = row[y] /\ x <= y)
       IN <<w>> \o ByCountDesc(row, S \ {w})

\* getTopCorrelatedWinning(): the topN winning numbers of a machine number
getTopCorrelatedWinning(correlations, machineNum, topN) ==
  LET row == correlations[machineNum]
      all == ByCountDesc(row, {w \in Numbers : row[w] > 0})
  IN SubSeq(all, 1, Min(topN, Len(all)))

\* the inner loop of generateHybridPrediction() for one machine number:
\* if (boostedScores[winNum]) boostedScores[winNum] *= boostFactor
BoostedBy(scores, top) ==
  [w \in Numbers |->
     IF Includes(top, w) /\ scores[w] # 0
     THEN (scores[w] * BoostNum) \div BoostDen
     ELSE scores[w]]

\* the outer loop without the guard `if (boostedScores[winNum])`: every listed
\* winning number is recorded as boosted
RECURSIVE BoostLoopUnguarded(_, _, _, _)
BoostLoopUnguarded(correlations, machinePrediction, i, acc) ==
  IF i > Len(machinePrediction) THEN acc
  ELSE LET top == getTopCorrelatedWinning(correlations, machinePrediction[i], TopN)
       IN BoostLoopUnguarded(correlations, machinePrediction, i + 1,
             [scores |-> BoostedBy(acc.scores, top),
              numbers |-> acc.numbers \cup {w \in Numbers : Includes(top, w)}])

\* the outer loop of generateHybridPrediction() over machinePrediction[i..]
RECURSIVE BoostLoop(_, _, _, _)
BoostLoop(correlations, machinePrediction, i, acc) ==
  IF i > Len(machinePrediction) THEN acc
  ELSE LET top == getTopCorrelatedWinning(correlations, machinePrediction[i], TopN)
       IN BoostLoop(correlations, machinePrediction, i + 1,
             [scores |-> BoostedBy(acc.scores, top),
              numbers |-> acc.numbers \cup
                            {w \in Numbers : Includes(top, w) /\ acc.scores[w] # 0}])

\* calculateCorrelationStrength(), in hundredths: sum of the row maxima over
\* twice that sum
calculateCorrelationStrength(correlations, machinePrediction) ==
  IF \E i \in 1..Len(machinePrediction), w \in Numbers :
        correlations[machinePrediction[i]][w] > 0
  THEN 50 ELSE 0

generateHybridPrediction(ds, mainScores, machinePrediction) ==
  LET correlations == analyzeWinningMachineCorrelation(ds)
      r == BoostLoop(correlations, machinePrediction, 1,
                     [scores |-> [w \in Numbers |-> mainScores[w] * BoostScale],
                      numbers |-> {}])
  IN [boostedScores |-> r.scores,
      boostedNumbers |-> r.numbers,
      correlationStrength |-> calculateCorrelationStrength(correlations, machinePrediction)]

\* the draws a hybrid prediction may be computed from
DrawPool ==
  << [winning |-> <<17, 25, 33, 48, 60>>, machine |-> <<10, 20, 31, 41, 51>>],
     [winning |-> <<17, 26, 34, 49, 61>>, machine |-> <<10, 22, 30, 44, 52>>],
     [winning |-> <<1, 2, 3, 4, 5>>, machine |-> <<10, 20, 35, 45, 55>>],
     [winning |-> <<17, 18, 19, 80, 90>>, machine |-> NoNumbers] >>

\* the draws of the pool at the chosen positions, in order
RECURSIVE PoolDraws(_, _)
PoolDraws(chosen, i) ==
  IF i > Len(DrawPool) THEN << >>
  ELSE (IF i \in chosen THEN <<DrawPool[i]>> ELSE << >>) \o PoolDraws(chosen, i + 1)

MachinePredictions == { <<10, 20, 30, 40, 50>>, <<10, 22, 35, 40, 50>>, <<31, 41, 51, 60, 70>> }

\* main score maps (integer score units): every number scored, every third
\* number unscored, and a map with few scored numbers
MainScoreMaps ==
  { [n \in Numbers |-> 1 + (n % 7)],
    [n \in Numbers |-> IF n % 3 = 0 THEN 0 ELSE 1 + (n % 5)],
    [n \in Numbers |-> IF n \in {17, 25, 26, 48} THEN 20 ELSE 0] }

NoHybrid == [boostedScores |-> << >>, boostedNumbers |-> {}, correlationStrength |-> 0]

\* one call of generateHybridPrediction() on the chosen inputs
HybridCall ==
  /\ hyb.pc = "input"
  /\ hyb' = [hyb EXCEPT !.pc = "done",
                        !.result = generateHybridPrediction(hyb.draws, hyb.mainScores,
                                                            hyb.machinePrediction)]
  /\ UNCHANGED <<brainVars, refreshVars, historyVars, clockVars, req, sel, load, scoring>>

----------------------------------------------------------------------------
(* server.js / correlation-analyzer.js: the selection of 5 numbers *)

\* Scores are integers in units of 0.00001; a ranked score, score.toFixed(4),
\* is in units of 0.0001.  An exact tie x.xxxx5 is decided by the binary
\* representation of the score, so either neighbour is possible (up).
RoundPer(x, per, up) ==
  LET fl == x \div per
      r2 == 2 * (x % per)
  IN IF r2 > per THEN fl + 1
     ELSE IF r2 < per THEN fl
     ELSE IF up THEN fl + 1 ELSE fl

\* per: how many score units make 0.0001 (10 for the main and machine scores;
\* 10 * BoostScale for boosted scores, which carry the scale of the booster)
ToFixed4(x, per, up) == RoundPer(x, per, up)

Decade(n) == (n - 1) \div 10

\* Object.entries(scores).map(...).sort((a, b) => b.score - a.score): the
\* entries come in ascending number order and the sort is stable, so equal
\* scores stay in ascending number order
\* (the order is built around its middle entry, so that the evaluation nests
\* in the logarithm of the number of entries)
RECURSIVE RankDesc(_, _)
RankDesc(ranked, S) ==
  IF S = {} THEN << >>
  ELSE LET Before(y, x) == \/ ranked[y] > ranked[x]
                           \/ (ranked[y] = ranked[x] /\ y < x)
           c == CHOOSE x \in S :
                  Cardinality({y \in S : Before(y, x)}) = Cardinality(S) \div 2
           first == {y \in S : Before(y, c)}
       IN RankDesc(ranked, first) \o <<c>> \o RankDesc(ranked, S \ (first \cup {c}))

\* a first pass that takes the best candidates whatever their decade
RECURSIVE FirstPassUnbalanced(_, _, _, _)
FirstPassUnbalanced(ranked, i, count, selected) ==
  IF i > Len(ranked) \/ Len(selected) >= count THEN selected
  ELSE FirstPassUnbalanced(ranked, i + 1, count, Append(selected, ranked[i]))

\* first pass: in rank order, a candidate is taken while its decade has fewer
\* than 2 selected numbers
RECURSIVE FirstPass(_, _, _, _)
FirstPass(ranked, i, count, selected) ==
  IF i > Len(ranked) \/ Len(selected) >= count THEN selected
  ELSE LET c == ranked[i]
           decadeCount == Cardinality({j \in 1..Len(selected) :
                                          Decade(selected[j]) = Decade(c)})
       IN FirstPass(ranked, i + 1, count,
                    IF decadeCount < 2 THEN Append(selected, c) ELSE selected)

\* second pass: fill the remaining slots with the best candidates not yet selected
RECURSIVE SecondPass(_, _, _, _)
SecondPass(ranked, i, count, selected) ==
  IF i > Len(ranked) \/ Len(selected) >= count THEN selected
  ELSE SecondPass(ranked, i + 1, count,
                  IF Includes(selected, ranked[i]) THEN selected
                  ELSE Append(selected, ranked[i]))

\* selectTopNumbers(scores, count); generatePredictions() has the same two
\* passes inline for the main and the machine numbers.  The result lists the
\* selected numbers in selection order.
selectTopNumbers(scores, count, per, up) ==
  LET rounded == [n \in DOMAIN scores |-> ToFixed4(scores[n], per, up)]
      ranked == RankDesc(rounded, DOMAIN scores)
  IN SecondPass(ranked, 1, count, FirstPass(ranked, 1, count, << >>))

\* selected.map(n => n.number).sort((a, b) => a - b)
RECURSIVE SortAsc(_)
SortAsc(S) ==
  IF S = {} THEN << >>
  ELSE LET lo == CHOOSE x \in S : \A y \in S : x <= y
       IN <<lo>> \o SortAsc(S \ {lo})

SelectedNumbers(selected) == SortAsc({selected[i] : i \in 1..Len(selected)})

\* score maps over 1..90: spread over all decades with many equal scores and
\* rounding ties, and concentrated on a few decades (none, one, two, ... all)
MapMultipliers == 1..5
MapModuli == {7, 11, 13, 89}
ModMap(a, m) == [n \in Numbers |-> ((n * a) % m) * 1235]
DecadeSets == { {}, {0}, {3}, {0, 1}, {2, 8}, {0, 1, 2}, {0, 1, 2, 3}, {4, 5, 6, 7, 8}, 0..8 }
DecadeMap(D) == [n \in Numbers |-> IF Decade(n) \in D THEN 20000 + 15 * n ELSE 0]

ScoreMaps ==
  {ModMap(a, m) : a \in MapMultipliers, m \in MapModuli} \cup {DecadeMap(D) : D \in DecadeSets}

NoSelection == [selected |-> << >>, numbers |-> << >>]

\* one selection: the main numbers, the machine numbers or the hybrid numbers
SelectCall ==
  /\ sel.pc = "input"
  /\ LET selected == selectTopNumbers(sel.scores, 5, 10, sel.up)
     IN sel' = [sel EXCEPT !.pc = "done",
                           !.result = [selected |-> selected,
                                       numbers |-> SelectedNumbers(selected)]]
  /\ UNCHANGED <<brainVars, refreshVars, historyVars, clockVars, hyb, req, load, scoring>>

----------------------------------------------------------------------------
(* brain.js: calculateNumberScores; backtester.js: the hot strategy *)

\* Scores are integers in units of 0.000001 (a weight of one thousandth is
\* ScorePerWeight units); quotients are cut to the unit.
ScorePerWeight == 1000
ListLength == 15               \* strategies.hot(draws, 15, type), (15 - idx) / 15
VoteRanks == 5                 \* if (idx < 5) addVote(num)
NeighborNum == 3               \* NEIGHBOR_WEIGHT = 0.15 = 3 / 20
NeighborDen == 20
TopCandidates == 15            \* .slice(0, 15)
LoneWolfScore == 2000000       \* numberScores[i] > 2.0

\* freq[n] of strategyHotNumbers: the draws that hold n
Frequency(ds, n) == Cardinality({i \in 1..Len(ds) : Includes(ds[i].winning, n)})

\* strategyHotNumbers(draws, count): the count most frequent numbers (the sort
\* is stable over the ascending keys of freq), then .sort((a, b) => a - b)
strategyHotNumbers(ds, count) ==
  LET freq == [n \in Numbers |-> Frequency(ds, n)]
      ranked == RankDesc(freq, Numbers)
  IN SortAsc({ranked[i] : i \in 1..count})

\* the index (from 0) of n in a list of distinct numbers, -1 when absent
IndexIn(list, n) ==
  IF \E i \in 1..Len(list) : list[i] = n
  THEN (CHOOSE i \in 1..Len(list) : list[i] = n) - 1
  ELSE 0 - 1

\* weights.key || fallback
OrDefault(w, fallback) == IF w = 0 THEN fallback ELSE w

\* w * (15 - idx) / 15
Ranked(w, idx) == (w * ScorePerWeight * (ListLength - idx)) \div ListLength

\* "1. Cycle-based (Due)": entry idx of dueNumbers is [number, dueScore in tenths]
DueScore(weights, due, n) ==
  LET idx == IndexIn([i \in 1..Len(due) |-> due[i].number], n)
  IN IF idx < 0 THEN 0
     ELSE (Ranked(weights.due, idx) * Min(due[idx + 1].dueScore, 1500)) \div 1500

\* "2. Hot Numbers"
HotScore(weights, hot, n) ==
  LET idx == IndexIn(hot, n) IN IF idx < 0 THEN 0 ELSE Ranked(weights.hot, idx)

\* "3. Position-based"
PositionScore(weights, position, n) ==
  IF IndexIn(position, n) < 0 THEN 0 ELSE weights.position * ScorePerWeight * 2

\* "4. Correlation-based", "6. Statistical", "7. Last Digits": boost = w || 0.1
BoostScore(w, list, n) ==
  LET idx == IndexIn(list, n) IN IF idx < 0 THEN 0 ELSE Ranked(OrDefault(w, 100), idx)

\* "5. Balanced": multiplier 3.0, or 1.0 + 2.0 * (15 - idx) / 10 from idx 5 on
BalancedScore(weights, balanced, n) ==
  LET idx == IndexIn(balanced, n)
  IN IF idx < 0 THEN 0
     ELSE IF idx < 5 THEN weights.balanced * ScorePerWeight * 3
     ELSE (weights.balanced * ScorePerWeight * (10 + 2 * (ListLength - idx))) \div 10

\* "8. Deep Learning (LSTM)": boost = weights.lstm || 0.15, when the list is not empty
LstmScore(weights, lstm, n) ==
  LET idx == IndexIn(lstm, n) IN IF idx < 0 THEN 0 ELSE Ranked(OrDefault(weights.lstm, 150), idx)

\* numberScores before the tactical neighbours
BaseScores(weights, lists) ==
  [n \in Numbers |->
     DueScore(weights, lists.due, n) + HotScore(weights, lists.hot, n)
     + PositionScore(weights, lists.position, n)
     + BoostScore(weights.correlation, lists.correlation, n)
     + BalancedScore(weights, lists.balanced, n)
     + BoostScore(weights.statistical, lists.statistical, n)
     + BoostScore(weights.finales, lists.finales, n)
     + LstmScore(weights, lists.lstm, n)]

\* strategyVotes: the lists that hold n among their first five
Votes(lists, n) ==
  LET voted(list) == IF IndexIn(list, n) >= 0 /\ IndexIn(list, n) < VoteRanks THEN 1 ELSE 0
  IN voted([i \in 1..Len(lists.due) |-> lists.due[i].number]) + voted(lists.hot)
     + voted(lists.position) + voted(lists.correlation) + voted(lists.balanced)
     + voted(lists.statistical) + voted(lists.finales) + voted(lists.lstm)

\* topCandidates: the numbers with score > 0, by score descending, first 15
topCandidates(scores) ==
  LET ranked == RankDesc(scores, {n \in Numbers : scores[n] > 0})
  IN SubSeq(ranked, 1, Min(TopCandidates, Len(ranked)))

\* topCandidates.forEach(num => ...): the bonus is taken from the score the
\* number has when its turn comes
RECURSIVE NeighborLoop(_, _, _)
NeighborLoop(candidates, i, scores) ==
  IF i > Len(candidates) THEN scores
  ELSE LET num == candidates[i]
           bonus == (scores[num] * NeighborNum) \div NeighborDen
       IN NeighborLoop(candidates, i + 1,
             [n \in Numbers |->
                IF (n = num - 1 \/ n = num + 1) THEN scores[n] + bonus ELSE scores[n]])

\* "9. SYNERGY BOOST": * 1.20 from 5 votes, * 1.10 from 3 votes; * 0.85 for a
\* score above 2.0 without a vote
Synergy(score, votes) ==
  LET boosted == IF votes >= 5 THEN (score * 6) \div 5
                 ELSE IF votes >= 3 THEN (score * 11) \div 10
                 ELSE score
  IN IF votes = 0 /\ boosted > LoneWolfScore THEN (boosted * 17) \div 20 ELSE boosted

\* calculateNumberScores(): base is the map before the neighbour step, spread
\* the map after it, scores the returned map
calculateNumberScores(weights, lists) ==
  LET base == BaseScores(weights, lists)
      candidates == topCandidates(base)
      spread == NeighborLoop(candidates, 1, base)
  IN [base |-> base, candidates |-> candidates, spread |-> spread,
      scores |-> [n \in Numbers |-> Synergy(spread[n], Votes(lists, n))]]

\* the draws the hot strategy counts: 7 is in every draw
ScoreDrawPool ==
  << [winning |-> <<7, 12, 33, 48, 60>>], [winning |-> <<7, 12, 34, 49, 61>>],
     [winning |-> <<3, 7, 33, 50, 62>>], [winning |-> <<7, 13, 35, 48, 90>>] >>

RECURSIVE ScoreDraws(_, _)
ScoreDraws(chosen, i) ==
  IF i > Len(ScoreDrawPool) THEN << >>
  ELSE (IF i \in chosen THEN <<ScoreDrawPool[i]>> ELSE << >>) \o ScoreDraws(chosen, i + 1)

\* weights {hot: 0.5, due: 0.5, all others 0}
HotDueWeights == [k \in WeightKeys |-> IF k \in {"hot", "due"} THEN 500 ELSE 0]

ScoreWeights == {defaultWeights, StoredBlob.weights, HotDueWeights}

\* what the other strategies and the cycle analysis yield: lists of a day with
\* data (finales always lists 15 numbers of three last digits), the same with
\* the LSTM candidates, and no list at all
NoLists ==
  [due |-> << >>, position |-> << >>, correlation |-> << >>, balanced |-> << >>,
   statistical |-> << >>, finales |-> << >>, lstm |-> << >>]

DayLists ==
  [due |-> << [number |-> 86, dueScore |-> 2000], [number |-> 87, dueScore |-> 1800],
              [number |-> 88, dueScore |-> 1400], [number |-> 89, dueScore |-> 1200],
              [number |-> 90, dueScore |-> 900] >>,
   position |-> <<7, 12, 33, 48, 60>>,
   correlation |-> <<7, 12, 33, 34, 48>>,
   balanced |-> <<12, 25, 33, 48, 50>>,
   statistical |-> <<7, 21, 33, 48, 77>>,
   finales |-> <<10, 13, 20, 23, 30, 33, 40, 43, 50, 53, 60, 63, 70, 73, 80>>,
   lstm |-> << >>]

ScoreLists ==
  {NoLists, DayLists, [DayLists EXCEPT !.lstm = <<7, 22, 41, 56, 78, 81>>]}

NoScores == [base |-> << >>, candidates |-> << >>, spread |-> << >>, scores |-> << >>]

\* one call of calculateNumberScores(draws, weights, 'winning', {lstm})
ScoreCall ==
  /\ scoring.pc = "input"
  /\ LET hot == strategyHotNumbers(scoring.draws, ListLength)
         lists == [due |-> scoring.lists.due, hot |-> hot,
                   position |-> scoring.lists.position,
                   correlation |-> scoring.lists.correlation,
                   balanced |-> scoring.lists.balanced,
                   statistical |-> scoring.lists.statistical,
                   finales |-> scoring.lists.finales, lstm |-> scoring.lists.lstm]
     IN scoring' = [scoring EXCEPT !.pc = "done", !.hot = hot,
                                   !.result = calculateNumberScores(scoring.weights, lists)]
  /\ UNCHANGED <<brainVars, refreshVars, historyVars, clockVars, hyb, req, sel, load>>

----------------------------------------------------------------------------
(* server.js: a /predict or /evaluate request through getDrawsData *)

\* drawTypeId 0 stands for null / 'all'
FilterType(rows, drawTypeId) ==
  IF drawTypeId = 0 THEN rows
  ELSE SelectSeq(rows, LAMBDA d : d.draw_type_id = drawTypeId)

\* getDrawsData() step 2: the cache holds rows for the request
CacheHit(cache, drawTypeId) ==
  cache.loaded /\ Len(FilterType(cache.draws, drawTypeId)) > 0

\* getDrawsData() step 3: the rows of the direct query, oldest first
DirectRows(rows, drawTypeId) ==
  MapRows(Reverse(OrderDesc({d \in rows : drawTypeId = 0 \/ d.draw_type_id = drawTypeId})))

\* the validation of handleEvaluationRequest: numbers is an array of length 5
PassesValidation(numbers) == Len(numbers) = 5

\* Math.min(95, avgScore * 100 + 40), in 1/500 of a point: avgScore is the sum
\* of the 5 ranked scores (units of 0.0001) divided by 5
Confidence(scores, selected, up) ==
  LET rounded == [n \in DOMAIN scores |-> ToFixed4(scores[n], 10, up)]
      total == SumOver(rounded, {selected[i] : i \in 1..Len(selected)})
  IN Min(95 * 500, total + 40 * 500)

\* what generatePredictions() computes from the draws and the score maps:
\* the main, machine and hybrid numbers and the main confidence
PredictionOf(rows, scores, machineScores, up) ==
  LET main == selectTopNumbers(scores, 5, 10, up)
      machineNumbers == SelectedNumbers(selectTopNumbers(machineScores, 5, 10, up))
      hybridResult == generateHybridPrediction(rows, scores, machineNumbers)
      hybrid == selectTopNumbers(hybridResult.boostedScores, 5, 10 * BoostScale, up)
  IN [numbers |-> SelectedNumbers(main),
      confidence |-> Confidence(scores, main, up),
      machineNumbers |-> machineNumbers,
      hybridNumbers |-> SelectedNumbers(hybrid)]

\* the handler's catch block: 500 with the error message
RespondedError(r) == [r EXCEPT !.pc = "done", !.status = 500]

\* generatePredictions() produces a prediction from these rows
Generates(r, rows) == r.kind = "predict" /\ Len(rows) > 0

\* the request once getDrawsData() has returned rows.  /predict:
\* generatePredictions() throws 'Could not fetch draws data' on no rows, else
\* answers 200 with the prediction.  /evaluate: the numbers are scored and
\* answered 200 (scored: on no rows, whether the strategies ran without throwing).
Responded(r, rows, scored) ==
  IF r.kind = "predict"
  THEN IF Len(rows) = 0
       THEN [r EXCEPT !.pc = "done", !.status = 500, !.rows = rows]
       ELSE LET p == PredictionOf(rows, r.scores, r.machineScores, r.up)
            IN [r EXCEPT !.pc = "done", !.status = 200, !.rows = rows,
                         !.selection = p.numbers, !.confidence = p.confidence,
                         !.machineNumbers = p.machineNumbers,
                         !.hybridNumbers = p.hybridNumbers]
  ELSE IF scored \/ Len(rows) > 0
       THEN [r EXCEPT !.pc = "done", !.status = 200, !.rows = rows, !.evaluated = TRUE]
       ELSE [r EXCEPT !.pc = "done", !.status = 500, !.rows = rows]

\* getDrawsData() has returned rows to the handler, with the caches as given.
\* A generated prediction is stored in the prediction cache and logged to the
\* history file; the learn() call generatePredictions() dispatches without
\* awaiting it is a call of the Brain specification.
RequestFinish(rows, scored, cacheAfter, predictionCacheAfter) ==
  /\ req' = Responded(req, rows, scored)
  /\ dataCache' = cacheAfter
  /\ IF Generates(req, rows)
     THEN /\ predictionCache' = [timestamp |-> now, bornAt |-> 0]
          /\ historyFile' = HistoryWith([drawTypeId |-> req.drawTypeId,
                                         predictedNumbers |-> req'.selection,
                                         machineNumbers |-> req'.machineNumbers,
                                         hybridNumbers |-> req'.hybridNumbers])
          /\ nextEntry' = nextEntry + 1
     ELSE /\ predictionCache' = predictionCacheAfter
          /\ UNCHANGED <<historyFile, nextEntry>>

\* getDrawsData() step 2 and 3 on the cache as given: serve from the cache,
\* or send the direct query
RequestServe(scored, cacheAfter, predictionCacheAfter, storeError) ==
  IF CacheHit(cacheAfter, req.drawTypeId)
  THEN RequestFinish(FilterType(cacheAfter.draws, req.drawTypeId), scored,
                     cacheAfter, predictionCacheAfter)
  ELSE /\ req' = [req EXCEPT !.pc = "direct", !.storeError = storeError]
       /\ dataCache' = cacheAfter
       /\ predictionCache' = predictionCacheAfter
       /\ UNCHANGED <<historyFile, nextEntry>>

requestFrame == <<brainVars, clockVars, hyb, sel, load, scoring, draws, verifyTask, isRefreshing,
                  refreshTask, timers, refreshStats, lastRefresh, listening, postReply,
                  served, config>>

\* the request arrives: /evaluate validates the body; then getDrawsData()
\* step 1 sends the reload query when the global cache is empty or expired
RequestStart(scored) ==
  /\ req.pc = "start"
  /\ IF req.kind = "evaluate" /\ ~PassesValidation(req.numbers)
     THEN /\ req' = RespondedError(req)
          /\ UNCHANGED <<dataCache, predictionCache, historyFile, nextEntry>>
     ELSE IF DataCacheStale
     THEN /\ req' = [req EXCEPT !.pc = "reloading"]
          /\ UNCHANGED <<dataCache, predictionCache, historyFile, nextEntry>>
     ELSE RequestServe(scored, dataCache, predictionCache, FALSE)
  /\ UNCHANGED requestFrame

\* the store answers the reload query: the cache is replaced and the
\* prediction cache cleared, or the error is logged; then step 2
ReloadAnswer(ok, scored) ==
  /\ req.pc = "reloading"
  /\ IF ok
     THEN RequestServe(scored, LoadedCache(draws, now), NoEntry, FALSE)
     ELSE RequestServe(scored, dataCache, predictionCache, TRUE)
  /\ UNCHANGED requestFrame

\* the store answers the direct query: an error makes getDrawsData() throw
\* 'Failed to fetch draws data', which the handler answers with 500
DirectAnswer(ok, scored) ==
  /\ req.pc = "direct"
  /\ IF ok
     THEN RequestFinish(DirectRows(draws, req.drawTypeId), scored, dataCache, predictionCache)
     ELSE /\ req' = [RespondedError(req) EXCEPT !.threw = TRUE, !.storeError = TRUE]
          /\ UNCHANGED <<dataCache, predictionCache, historyFile, nextEntry>>
  /\ UNCHANGED requestFrame

\* the rows the draws table may hold when the request arrives
RequestDrawPool ==
  { [draw_date |-> StartTime - 2 * Day, draw_type_id |-> 1,
     winning |-> <<7, 14, 23, 41, 90>>, machine |-> <<10, 21, 33, 40, 77>>],
    [draw_date |-> StartTime - Day, draw_type_id |-> 1,
     winning |-> <<7, 15, 24, 41, 88>>, machine |-> <<10, 21, 34, 41, 78>>],
    [draw_date |-> StartTime - Day, draw_type_id |-> 2,
     winning |-> <<2, 30, 45, 61, 88>>, machine |-> NoNumbers] }

\* the numbers of an /evaluate body: valid; too few; too many; none; a number
\* below 1; a number above 90; a duplicate
EvaluateInputs ==
  { <<5, 17, 33, 48, 90>>, <<5, 17, 33, 48>>, <<5, 17, 33, 48, 60, 90>>, << >>,
    <<0, 17, 33, 48, 90>>, <<5, 17, 33, 48, 91>>, <<5, 17, 17, 48, 90>> }

RequestScoreMaps == {ModMap(3, 13), DecadeMap({0, 1, 2})}

NewRequest(kind, drawTypeId, numbers, scores, up) ==
  [pc |-> "start", kind |-> kind, drawTypeId |-> drawTypeId, numbers |-> numbers,
   scores |-> scores, machineScores |-> ModMap(2, 11), up |-> up,
   storeError |-> FALSE, threw |-> FALSE, rows |-> << >>, status |-> 0,
   evaluated |-> FALSE, selection |-> << >>, confidence |-> 0,
   machineNumbers |-> << >>, hybridNumbers |-> << >>]

----------------------------------------------------------------------------
(* Specifications *)

----------------------------------------------------------------------------
(* server.js: the callers of learn() - generatePredictions and trainBrain *)

MinTrainingDraws == 10         \* trainBrain: if (draws.length < 10) continue
PredictionDays == {0, 3}       \* the day parameter of a request (0: null)
MaxTrainRequests == 3

\* the cache keys pred_<type>_<day> of requests for one draw type
TrainKeys == DrawTypeIds \X PredictionDays

\* the draw a learn() call is given (its five numbers), named by its row: the
\* day and the type
DrawId(row) == 10 * (row.draw_date \div Day) + row.draw_type_id

\* the number of the next learn() call, 0 when none is left
FreeCall(tasks) ==
  IF \E t \in LearnIds : tasks[t].pc = "idle"
  THEN CHOOSE t \in LearnIds : tasks[t].pc = "idle" /\ \A u \in 1..(t - 1) : tasks[u].pc # "idle"
  ELSE 0

\* what learn() computes from the training data of the row: the strategies
\* see the same draws each time the row is the latest one
TrainInput(row) ==
  [draw |-> DrawId(row), drawTypeId |-> row.draw_type_id, globalMatches |-> 3,
   scores |-> ProfileOf({"hot"}, {"due", "statistical"})]

\* getLastPerformance(): the newest logged prediction of the type, and the
\* latest draw of the type when its date is not before the prediction's day
LastPrediction(d) ==
  historyFile[CHOOSE i \in 1..Len(historyFile) :
                 /\ historyFile[i].drawTypeId = d
                 /\ \A j \in 1..(i - 1) : historyFile[j].drawTypeId # d]

HasPerformance(d, rows) ==
  /\ d # 0
  /\ \E i \in 1..Len(historyFile) : historyFile[i].drawTypeId = d
  /\ Len(rows) > 0
  /\ rows[Len(rows)].draw_date >= DateOf(LastPrediction(d).timestamp)

\* GET /predict?type=d&day=day when the cache has no entry of the key (an
\* entry of the key answers the request and nothing else happens):
\* generatePredictions() reads the draws, starts learn() on the latest draw
\* when getLastPerformance() has a result, logs its prediction, and the
\* prediction is cached under the key
GeneratePredictions(d, day, p, up) ==
  /\ predictionCache[<<d, day>>] = NoEntry
  /\ nextEntry < MaxTrainRequests
  /\ p.drawTypeId = d
  /\ LET rows == DirectRows(draws, d)
     IN /\ Len(rows) > 0
        /\ IF HasPerformance(d, rows)
           THEN LET t == FreeCall(learnTask)
                    after == CachedLearn(heap, learnTask, t, "winning",
                                         TrainInput(rows[Len(rows)]), up)
                IN /\ t # 0
                   /\ heap' = after.heap
                   /\ learnTask' = after.learnTask
           ELSE UNCHANGED <<heap, learnTask>>
  /\ historyFile' = HistoryWith(p)
  /\ nextEntry' = nextEntry + 1
  /\ predictionCache' = [predictionCache EXCEPT ![<<d, day>>] = [timestamp |-> now]]
  /\ UNCHANGED <<brainCache, db, statusTask, draws, verifyTask, clockVars, callVars,
                 isRefreshing, refreshTask, timers, refreshStats, lastRefresh, listening,
                 postReply, dataCache, served, config>>

\* one learn() call of trainBrain(); ok turns false when no call is left
TrainStep(st, s, in, up) ==
  LET t == FreeCall(st.learnTask)
  IN IF ~st.ok \/ t = 0 THEN [st EXCEPT !.ok = FALSE]
     ELSE LET after == CachedLearn(st.heap, st.learnTask, t, s, in, up)
          IN [heap |-> after.heap, learnTask |-> after.learnTask, ok |-> TRUE]

\* the loop body of trainBrain() for one draw type: the latest draw is learned
\* on the winning stream, and on the machine stream when it has its five
\* machine numbers
TrainType(st, d, up) ==
  LET rows == DirectRows(draws, d)
      latest == rows[Len(rows)]
      won == TrainStep(st, "winning", TrainInput(latest), up)
  IN IF Len(rows) < MinTrainingDraws THEN st
     ELSE IF Len(latest.machine) = 5 THEN TrainStep(won, "machine", TrainInput(latest), up)
     ELSE won

\* trainBrain(), run by a refresh cycle that inserted rows or was forced
TrainBrain(up) ==
  LET st == TrainType(TrainType([heap |-> heap, learnTask |-> learnTask, ok |-> TRUE], 1, up),
                      2, up)
  IN /\ st.ok
     /\ heap' = st.heap
     /\ learnTask' = st.learnTask
     /\ UNCHANGED <<brainCache, db, statusTask, refreshVars, historyVars, clockVars, callVars>>

\* the draws table: ten draws of type 1 up to today's (its machine numbers
\* present or not), two draws of type 2
TrainDraws(withMachine) ==
  {[draw_date |-> StartTime - k * Day, draw_type_id |-> 1, winning |-> <<7, 14, 23, 41, 90>>,
    machine |-> IF withMachine THEN <<10, 21, 33, 40, 77>> ELSE NoNumbers] : k \in 0..9}
  \cup
  {[draw_date |-> StartTime - k * Day, draw_type_id |-> 2, winning |-> <<2, 30, 45, 61, 88>>,
    machine |-> NoNumbers] : k \in 0..1}

\* a prediction of type 1 logged the day before
EarlierPrediction ==
  [id |-> 0, timestamp |-> StartTime - Day, drawTypeId |-> 1,
   predictedNumbers |-> <<7, 15, 23, 42, 71>>, machineNumbers |-> NoNumbers,
   hybridNumbers |-> NoNumbers, result |-> NoResult, machineResult |-> NoResult,
   hybridResult |-> NoResult]

IdleRefresh ==
  /\ isRefreshing = FALSE /\ refreshTask = << >> /\ timers = 0
  /\ refreshStats = NoStats /\ lastRefresh = 0 /\ listening = FALSE /\ postReply = "none"
  /\ dataCache = EmptyDataCache /\ predictionCache = NoEntry
  /\ served = NoAnswer /\ config = [runAnalysisAfterScrape |-> TRUE, autoRefresh |-> TRUE]

IdleHistory ==
  /\ historyFile = << >> /\ draws = {} /\ verifyTask = << >>
  /\ nextEntry = 0

IdleClock == now = 0 /\ lastVerificationTime = 0

IdleBrain ==
  /\ brainCache = [s \in Streams |-> 0] /\ heap = << >>
  /\ db = [s \in Streams |-> NoBlob] /\ learnTask = << >>
  /\ statusTask = IdleStatus

IdleHybrid == hyb = [pc |-> "none"]

IdleRequest == req = [pc |-> "none"]

IdleSelect == sel = [pc |-> "none"]

IdleLoading == load = [pc |-> "none"]

IdleScoring == scoring = [pc |-> "none"]

\* ---- the Brain: learn() calls of both streams against the cache and the store
InitBrain ==
  /\ brainCache = [s \in Streams |-> 0]
  /\ heap = << >>
  /\ db \in [Streams -> InitialBlobs]
  /\ learnTask = [t \in LearnIds |-> IdleLearn]
  /\ statusTask = IdleStatus
  /\ IdleRefresh /\ IdleHistory /\ IdleClock /\ IdleHybrid /\ IdleRequest /\ IdleSelect
  /\ IdleLoading /\ IdleScoring

NextBrain ==
  /\ \/ \E t \in LearnIds, s \in Streams, in \in LearnInputs, up \in BOOLEAN :
          LearnCached(t, s, in, up)
     \/ \E t \in LearnIds, s \in Streams : LearnMiss(t, s)
     \/ \E t \in LearnIds, ok \in BOOLEAN : DbSelect(t, ok)
     \/ \E t \in LearnIds, in \in LearnInputs, up \in BOOLEAN : LoadReturn(t, in, up)
     \/ \E t \in LearnIds, ok \in BOOLEAN : SaveReturn(t, ok)
     \/ \E hasHistory \in BOOLEAN : StatusCached(hasHistory)
     \/ StatusMiss
     \/ \E ok \in BOOLEAN : StatusDbSelect(ok)
     \/ \E hasHistory \in BOOLEAN, up \in BOOLEAN : StatusReturn(hasHistory, up)
  /\ UNCHANGED <<refreshVars, historyVars, clockVars, callVars>>

SpecBrain == InitBrain /\ [][NextBrain]_vars

\* ---- loadBrain() against rows of every stored shape
InitLoad ==
  /\ brainCache = [s \in Streams |-> 0]
  /\ heap = << >>
  /\ db \in [Streams -> LoadableBlobs]
  /\ learnTask = << >>
  /\ statusTask = IdleStatus
  /\ load = NoLoad
  /\ IdleRefresh /\ IdleHistory /\ IdleClock /\ IdleHybrid /\ IdleRequest /\ IdleSelect
  /\ IdleScoring

NextLoad ==
  /\ \/ \E s \in Streams : LoadBrainCached(s)
     \/ \E s \in Streams : LoadBrainMiss(s)
     \/ \E ok \in BOOLEAN : LoadBrainDbAnswer(ok)
     \/ \E up \in BOOLEAN : LoadBrainReturn(up)
  /\ UNCHANGED <<refreshVars, historyVars, clockVars, hyb, req, sel, scoring>>

SpecLoad == InitLoad /\ [][NextLoad]_vars

\* ---- the callers of learn() on a server whose two brains are cached
InitTrain ==
  /\ heap = <<defaultBrain, defaultBrain>>
  /\ brainCache = [s \in Streams |-> IF s = "winning" THEN 1 ELSE 2]
  /\ db = [s \in Streams |-> NoBlob]
  /\ learnTask = [t \in LearnIds |-> IdleLearn]
  /\ statusTask = IdleStatus
  /\ \E withMachine \in BOOLEAN : draws = TrainDraws(withMachine)
  /\ historyFile \in {<< >>, <<EarlierPrediction>>}
  /\ verifyTask = << >> /\ nextEntry = 0
  /\ now = StartTime /\ lastVerificationTime = 0
  /\ isRefreshing = FALSE /\ refreshTask = << >> /\ timers = 0
  /\ refreshStats = NoStats /\ lastRefresh = 0 /\ listening = TRUE /\ postReply = "none"
  /\ dataCache = EmptyDataCache /\ served = NoAnswer
  /\ predictionCache = [k \in TrainKeys |-> NoEntry]
  /\ config = [runAnalysisAfterScrape |-> TRUE, autoRefresh |-> TRUE]
  /\ IdleHybrid /\ IdleRequest /\ IdleSelect /\ IdleLoading /\ IdleScoring

NextTrain ==
  \/ \E d \in DrawTypeIds, day \in PredictionDays, p \in PredictionInputs, up \in BOOLEAN :
        GeneratePredictions(d, day, p, up)
  \/ \E up \in BOOLEAN : TrainBrain(up)
  \/ \E t \in LearnIds, ok \in BOOLEAN :
        SaveReturn(t, ok) /\ UNCHANGED <<refreshVars, historyVars, clockVars, callVars>>

SpecTrain == InitTrain /\ [][NextTrain]_vars

\* ---- calculateNumberScores on bounded inputs
InitScore ==
  /\ \E chosen \in SUBSET (1..Len(ScoreDrawPool)), w \in ScoreWeights, l \in ScoreLists :
        scoring = [pc |-> "input", draws |-> ScoreDraws(chosen, 1), weights |-> w,
                   lists |-> l, hot |-> << >>, result |-> NoScores]
  /\ IdleBrain /\ IdleRefresh /\ IdleHistory /\ IdleClock /\ IdleHybrid /\ IdleRequest
  /\ IdleSelect /\ IdleLoading

NextScore == ScoreCall

SpecScore == InitScore /\ [][NextScore]_vars

\* ---- the prediction history file: appends, scraped draws and verification runs
\* the file after a long service: at the limit of 1000 entries, newest first,
\* every entry logged more than seven days before the start (ids 0 and below)
OldHistoryFile ==
  [i \in 1..HistoryFileLimit |->
     [id |-> 1 - i, timestamp |-> StartTime - 8 * Day - i,
      drawTypeId |-> 1, predictedNumbers |-> <<7, 15, 23, 42, 71>>,
      machineNumbers |-> NoNumbers, hybridNumbers |-> NoNumbers,
      result |-> NoResult, machineResult |-> NoResult, hybridResult |-> NoResult]]

InitHistory ==
  /\ historyFile = << >>
  /\ draws = {}
  /\ verifyTask = [v \in VerifyIds |-> IdleVerify]
  /\ nextEntry = 0
  /\ now = StartTime
  /\ lastVerificationTime = 0
  /\ IdleBrain /\ IdleRefresh /\ IdleHybrid /\ IdleRequest /\ IdleSelect
  /\ IdleLoading /\ IdleScoring

NextHistory ==
  /\ \/ \E p \in PredictionInputs : LogPrediction(p)
     \/ \E d \in DrawInputs : InsertDraw(d)
     \/ \E step \in {"minute", "day"} : Tick(step)
     \/ \E v \in VerifyIds : VerifyStart(v, FALSE)
     \/ \E v \in VerifyIds, ok \in BOOLEAN : VerifyDbAnswer(v, ok)
     \/ \E v \in VerifyIds : VerifyFinish(v)
  /\ UNCHANGED <<brainVars, refreshVars, callVars>>

SpecHistory == InitHistory /\ [][NextHistory]_vars

\* ---- the same, on a file that is full: the entries are too old to be
\* verified, and a first verification run, a day ago, found nothing to do
InitHistoryFull ==
  /\ historyFile = OldHistoryFile
  /\ draws = {}
  /\ verifyTask = [v \in VerifyIds |-> IF v = 1 THEN [IdleVerify EXCEPT !.pc = "done"]
                                       ELSE IdleVerify]
  /\ nextEntry = 0
  /\ now = StartTime
  /\ lastVerificationTime = StartTime - Day
  /\ IdleBrain /\ IdleRefresh /\ IdleHybrid /\ IdleRequest /\ IdleSelect
  /\ IdleLoading /\ IdleScoring

SpecHistoryFull == InitHistoryFull /\ [][NextHistory]_vars

\* ---- the refresh cycle: startup, timers, POST /refresh, prediction requests
InitRefresh ==
  /\ isRefreshing = FALSE
  /\ refreshTask = [r \in RefreshIds |-> IdleCycle]
  /\ timers = 0
  /\ refreshStats = NoStats
  /\ lastRefresh = 0
  /\ listening = FALSE
  /\ postReply = "none"
  /\ dataCache = EmptyDataCache
  /\ predictionCache = NoEntry
  /\ served = NoAnswer
  /\ config \in [runAnalysisAfterScrape : BOOLEAN, autoRefresh : BOOLEAN]
  /\ now = StartTime
  /\ lastVerificationTime = 0
  /\ IdleBrain /\ IdleHistory /\ IdleHybrid /\ IdleRequest /\ IdleSelect
  /\ IdleLoading /\ IdleScoring

NextRefresh ==
  /\ \/ \E r \in RefreshIds : ServerListen(r)
     \/ \E r \in RefreshIds : TimerFire(r)
     \/ \E r \in RefreshIds, forceTrain \in BOOLEAN : PostRefresh(r, forceTrain)
     \/ \E r \in RefreshIds, ok \in BOOLEAN, inserted \in {0, 1} : ScraperExit(r, ok, inserted)
     \/ \E r \in RefreshIds, ok \in BOOLEAN : AnalyzerExit(r, ok)
     \/ \E r \in RefreshIds : VerifyPassDone(r)
     \/ \E r \in RefreshIds, typesOk \in BOOLEAN : TrainDone(r, typesOk)
     \/ \E dbOk \in BOOLEAN : PredictRequest(dbOk)
     \/ BrainStatusRequest
     \/ RefreshTick
  /\ UNCHANGED <<brainVars, historyVars, callVars>>

SpecRefresh == InitRefresh /\ [][NextRefresh]_vars

\* the steps of a running cycle: the subprocesses exit and the awaited calls
\* return
CycleStep ==
  /\ \/ \E r \in RefreshIds, ok \in BOOLEAN, inserted \in {0, 1} : ScraperExit(r, ok, inserted)
     \/ \E r \in RefreshIds, ok \in BOOLEAN : AnalyzerExit(r, ok)
     \/ \E r \in RefreshIds : VerifyPassDone(r)
     \/ \E r \in RefreshIds, typesOk \in BOOLEAN : TrainDone(r, typesOk)
  /\ UNCHANGED <<brainVars, historyVars, callVars>>

\* a pending setTimeout callback runs
TimerStep ==
  /\ \E r \in RefreshIds : TimerFire(r)
  /\ UNCHANGED <<brainVars, historyVars, callVars>>

\* the listen callback runs
ListenStep ==
  /\ \E r \in RefreshIds : ServerListen(r)
  /\ UNCHANGED <<brainVars, historyVars, callVars>>

\* the refresh loop when the subprocesses terminate, the awaited calls return
\* and the event loop runs the callbacks that are due
SpecRefreshFair ==
  /\ InitRefresh /\ [][NextRefresh]_vars
  /\ WF_vars(CycleStep) /\ WF_vars(TimerStep) /\ WF_vars(ListenStep)

\* ---- the correlation booster on bounded inputs
InitHybrid ==
  /\ \E chosen \in SUBSET (1..Len(DrawPool)), mp \in MachinePredictions, ms \in MainScoreMaps :
        hyb = [pc |-> "input", draws |-> PoolDraws(chosen, 1), mainScores |-> ms,
               machinePrediction |-> mp, result |-> NoHybrid]
  /\ IdleBrain /\ IdleRefresh /\ IdleHistory /\ IdleClock /\ IdleRequest /\ IdleSelect
  /\ IdleLoading /\ IdleScoring

NextHybrid == HybridCall

SpecHybrid == InitHybrid /\ [][NextHybrid]_vars

\* ---- one request: the draws table, the global cache (empty, or loaded
\* from an earlier state of the table and still fresh) and the request
InitRequest ==
  /\ draws \in SUBSET RequestDrawPool
  /\ dataCache \in {EmptyDataCache} \cup {LoadedCache(S, StartTime) : S \in SUBSET draws}
  /\ now = StartTime
  /\ lastVerificationTime = 0
  /\ \/ \E drawTypeId \in {0} \cup DrawTypeIds, numbers \in EvaluateInputs :
           req = NewRequest("evaluate", drawTypeId, numbers, ModMap(3, 13), TRUE)
     \/ \E drawTypeId \in {0} \cup DrawTypeIds, scores \in RequestScoreMaps, up \in BOOLEAN :
           req = NewRequest("predict", drawTypeId, << >>, scores, up)
  /\ isRefreshing = FALSE /\ refreshTask = << >> /\ timers = 0
  /\ refreshStats = NoStats /\ lastRefresh = 0 /\ listening = TRUE /\ postReply = "none"
  /\ predictionCache = NoEntry /\ served = NoAnswer
  /\ config = [runAnalysisAfterScrape |-> TRUE, autoRefresh |-> TRUE]
  /\ historyFile = << >> /\ verifyTask = << >> /\ nextEntry = 0
  /\ IdleBrain /\ IdleHybrid /\ IdleSelect /\ IdleLoading /\ IdleScoring

NextRequest ==
  \/ \E scored \in BOOLEAN : RequestStart(scored)
  \/ \E ok \in BOOLEAN, scored \in BOOLEAN : ReloadAnswer(ok, scored)
  \/ \E ok \in BOOLEAN, scored \in BOOLEAN : DirectAnswer(ok, scored)

SpecRequest == InitRequest /\ [][NextRequest]_vars

\* ---- the selectors on bounded score maps
InitSelect ==
  /\ \E kind \in {"main", "machine", "hybrid"}, scores \in ScoreMaps, up \in BOOLEAN :
        sel = [pc |-> "input", kind |-> kind, scores |-> scores, up |-> up,
               result |-> NoSelection]
  /\ IdleBrain /\ IdleRefresh /\ IdleHistory /\ IdleClock /\ IdleHybrid /\ IdleRequest
  /\ IdleLoading /\ IdleScoring

NextSelect == SelectCall

SpecSelect == InitSelect /\ [][NextSelect]_vars

----------------------------------------------------------------------------
(* Claims *)

WellFormedWeights(w) ==
  /\ SumOver(w, DOMAIN w) = 1000
  /\ \A k \in DOMAIN w : w[k] >= WeightMin /\ w[k] <= WeightMax

\* C1: in every brain state (the default brain, a brain loaded from the
\* store, and after every Learn step on either stream) the weights sum to 1
\* and every weight, lstm included, lies in [0.05, 0.60].
C1_WeightsNormalized ==
  \A o \in 1..Len(heap) : WellFormedWeights(heap[o].weights)

DoneOn(s) == {t \in LearnIds : learnTask[t].pc = "done" /\ learnTask[t].stream = s}

FirstBase(s) ==
  CHOOSE b \in {learnTask[t].base : t \in DoneOn(s)} :
     \A t \in DoneOn(s) : b <= learnTask[t].base

HistoryDates(brain) == {brain.history[i].date : i \in 1..Len(brain.history)}

\* C7: Learn is serialized per stream - once all the Learn calls have
\* completed, the cached brain of a stream has counted every one of them in
\* stats.totalDraws (it has grown by the number of calls from the value the
\* first call loaded) and holds the history entry of each call.
C7_NoLostLearn ==
  (\A t \in LearnIds : learnTask[t].pc = "done") =>
     \A s \in Streams :
        DoneOn(s) # {} =>
           /\ brainCache[s] # 0
           /\ heap[brainCache[s]].totalDraws = FirstBase(s) + Cardinality(DoneOn(s))
           /\ DoneOn(s) \subseteq HistoryDates(heap[brainCache[s]])

----------------------------------------------------------------------------
(* Claims about the prediction history file *)

EntryIds(h) == {h[i].id : i \in 1..Len(h)}
EntryOf(h, id) == h[CHOOSE i \in 1..Len(h) : h[i].id = id]
RowsOf(recent) == {recent[i] : i \in 1..Len(recent)}
Candidates(recent, pred) == {d \in RowsOf(recent) : IsCandidate(d, pred)}
Earliest(S) == CHOOSE d \in S : \A x \in S : d.draw_date <= x.draw_date
Finishes(v) == verifyTask[v].pc = "fetched" /\ verifyTask'[v].pc = "done"

\* C3: once an entry of the history file has a result it never returns to
\* pending, and its result, machineResult and hybridResult never change, for as
\* long as the entry is in the file.
C3_VerifiedImmutable ==
  [][\A id \in EntryIds(historyFile) \cap EntryIds(historyFile') :
        EntryOf(historyFile, id).result # NoResult =>
           /\ EntryOf(historyFile', id).result = EntryOf(historyFile, id).result
           /\ EntryOf(historyFile', id).machineResult = EntryOf(historyFile, id).machineResult
           /\ EntryOf(historyFile', id).hybridResult = EntryOf(historyFile, id).hybridResult]_vars

\* C4: for a pending entry a verification run takes the earliest same-type
\* draw dated on or after the prediction: that draw is the one tested against
\* the time window and, when inside it, the one attributed to the entry.
C4_EarliestDrawSelected ==
  [][\A v \in VerifyIds : Finishes(v) =>
        \A i \in 1..Len(verifyTask[v].history) :
           LET p == verifyTask[v].history[i]
               c == Candidates(verifyTask[v].recent, p)
               q == verifyTask'[v].history[i]
           IN (IsUnverified(p, verifyTask[v].sevenDaysAgo) /\ c # {}) =>
                 IF InWindow(Earliest(c), p)
                 THEN q.result # NoResult /\ q.result.drawDate = Earliest(c).draw_date
                 ELSE q.result = NoResult]_vars

C8_AppendSurvives ==
  [][Len(historyFile) < HistoryFileLimit =>
        EntryIds(historyFile) \subseteq EntryIds(historyFile')]_vars

----------------------------------------------------------------------------
(* Claims about the refresh cycle *)

\* C2: at most one refresh cycle (scrape, analysis, verification, training) is
\* in progress at any time, and a cycle is in progress only while isRefreshing
\* is set - a refresh attempted while it is set starts no work.
C2_SingleRefresh ==
  /\ Cardinality(InProgress) <= 1
  /\ InProgress # {} => isRefreshing

\* a refreshData() call was skipped while another cycle was in progress
C2_Witness ==
  /\ InProgress # {}
  /\ \E r \in RefreshIds : refreshTask[r].pc = "skipped"

\* C9: when the Brain training of a refresh cycle starts, a verification pass
\* has run to completion within that cycle.
C9_VerifiedBeforeTraining ==
  \A r \in RefreshIds : refreshTask[r].pc = "training" => refreshTask[r].verified

\* C10: once a refresh cycle whose scrape inserted rows has completed, no
\* prediction request is answered from a cache entry generated before that cycle.
C10_NoStalePrediction ==
  served.cached => served.bornAt >= served.insertDone

----------------------------------------------------------------------------
(* Claims about the correlation booster *)

\* C6: each boosted winning number is multiplied by boostFactor exactly once,
\* also when several predicted machine numbers list it: its boosted score is
\* its main score times 1.30.
C6_BoostedOnce ==
  hyb.pc = "done" =>
     \A w \in hyb.result.boostedNumbers :
        hyb.result.boostedScores[w] * BoostDen = hyb.mainScores[w] * BoostScale * BoostNum

\* C11: getBrainStatus returns a deep copy - what the /api/brain handler sets
\* on the returned object (realPerformance) appears neither in the cached
\* brain of a stream nor in a blob of the store.
C11_StatusIsCopy ==
  /\ \A s \in Streams : brainCache[s] # 0 => ~heap[brainCache[s]].realPerformance
  /\ \A s \in Streams : db[s] # NoBlob => ~db[s].realPerformance

\* what a stream's brain is: the cached object and the stored row
StreamView(cache, objects, store, s) ==
  <<cache[s], IF cache[s] = 0 THEN NoBlob ELSE objects[cache[s]], store[s]>>

\* the learn() calls that have run their body on stream s
LearnedOn(tasks, s) ==
  {t \in LearnIds : tasks[t].stream = s /\ tasks[t].pc \in {"saving", "done"}}

\* C12: streams are isolated - a step of a learn() call on one stream leaves
\* the other stream's cached brain and stored row as they were, and the
\* history of a stream's cached brain holds entries of that stream's calls
\* only (and of the row the server started with, dated 0 or before).
C12_StreamIsolation ==
  [][/\ \A t \in LearnIds : learnTask'[t] # learnTask[t] =>
           \A s \in Streams \ {learnTask'[t].stream} :
              StreamView(brainCache', heap', db', s) = StreamView(brainCache, heap, db, s)
     /\ \A s \in Streams : brainCache'[s] # 0 =>
           {d \in HistoryDates(heap'[brainCache'[s]]) : d > 0} \subseteq LearnedOn(learnTask', s)]_vars

\* both streams have learned: a completed call on each
C12_Witness ==
  /\ \E t \in LearnIds : learnTask[t].pc = "done" /\ learnTask[t].stream = "winning"
  /\ \E t \in LearnIds : learnTask[t].pc = "done" /\ learnTask[t].stream = "machine"
  /\ brainCache["winning"] # 0 /\ brainCache["machine"] # 0

\* the history the body of learn() call t starts from: that of the cached
\* object, or of the row loadBrain() fetched, or none (default brain)
HistoryBefore(t) ==
  IF learnTask[t].pc = "idle" THEN heap[learnTask'[t].obj].history
  ELSE IF learnTask[t].blob # NoBlob THEN learnTask[t].blob.history
  ELSE << >>

RunsBody(t) == learnTask[t].pc \in {"idle", "fetched"} /\ learnTask'[t].pc = "saving"

NewestFirst(file) ==
  \A i \in 1..(Len(file) - 1) : file[i].timestamp >= file[i + 1].timestamp

\* C14: after an append by logPredictionToHistory the file holds at most 1000
\* entries, newest first, the new entry at the head; the entries behind it are
\* the head of the file as it was, so what is dropped at the limit is the
\* oldest entry.
C14_FileBoundedNewestFirst ==
  [][nextEntry' = nextEntry + 1 =>
        /\ Len(historyFile') <= 1000
        /\ Len(historyFile') = IF Len(historyFile) < 1000 THEN Len(historyFile) + 1 ELSE 1000
        /\ historyFile'[1].id = nextEntry'
        /\ historyFile'[1].timestamp = now
        /\ NewestFirst(historyFile')
        /\ SubSeq(historyFile', 2, Len(historyFile')) =
              SubSeq(historyFile, 1, Len(historyFile') - 1)]_vars

\* an append to the full file has dropped its oldest entry
C14_Witness ==
  /\ Len(historyFile) = 1000
  /\ historyFile[1].id >= 1
  /\ historyFile[1000].id > 1 - 1000

\* C15: a POST /refresh received while a refresh is running is answered
\* success=false ("Refresh already in progress") and starts nothing:
\* isRefreshing, refreshStats, lastRefresh, the pending timers and the refresh
\* invocations are as before; a POST answered "started" found no refresh running.
C15_PostWhileRefreshing ==
  [][postReply' # postReply =>
        IF isRefreshing
        THEN /\ postReply' = "busy"
             /\ UNCHANGED <<isRefreshing, refreshStats, lastRefresh, timers, refreshTask>>
        ELSE postReply' = "started"]_vars

\* a POST was answered "busy" while a cycle was in progress
C15_Witness ==
  /\ postReply = "busy"
  /\ InProgress # {}
  /\ isRefreshing

\* C16: when the scraper or the analyzer exits with a non-zero code the cycle
\* stops there - no verification pass and no training of that cycle (the cycle
\* goes from scraping / analyzing straight to failed and stays there),
\* refreshStats.lastError is set, the completed-refresh counters are untouched
\* and isRefreshing is false again.
C16_SubprocessFailureStops ==
  [][\A r \in RefreshIds :
        /\ (refreshTask'[r].pc = "failed" /\ refreshTask[r].pc # "failed") =>
              /\ refreshTask[r].pc \in {"scraping", "analyzing"}
              /\ refreshStats'.lastError
              /\ refreshStats'.totalRefreshes = refreshStats.totalRefreshes
              /\ ~isRefreshing'
              /\ UNCHANGED <<lastRefresh, lastVerificationTime>>
        /\ refreshTask[r].pc = "failed" => refreshTask'[r].pc = "failed"]_vars

\* a cycle failed and a later refresh has started
C16_Witness ==
  \E r, q \in RefreshIds :
     /\ r < q
     /\ refreshTask[r].pc = "failed"
     /\ refreshTask[q].pc = "scraping"
     /\ refreshStats.lastError

InDecade(numbers, d) == {i \in 1..Len(numbers) : Decade(numbers[i]) = d}

NonZeroDecades(scores) == {Decade(n) : n \in {x \in DOMAIN scores : scores[x] # 0}}

\* C20: for every score map over 1..90 the selection is 5 distinct numbers in
\* 1..90, and no decade holds more than 2 of them unless fewer than 5 decades
\* have non-zero scores.
C20_SelectorShape ==
  sel.pc = "done" =>
     LET numbers == sel.result.numbers
     IN /\ Len(numbers) = 5
        /\ Len(sel.result.selected) = 5
        /\ \A i, j \in 1..Len(numbers) : i # j => numbers[i] # numbers[j]
        /\ \A i \in 1..Len(numbers) : numbers[i] >= 1 /\ numbers[i] <= 90
        /\ {numbers[i] : i \in 1..Len(numbers)} =
              {sel.result.selected[i] : i \in 1..Len(sel.result.selected)}
        /\ Cardinality(NonZeroDecades(sel.scores)) >= 5 =>
              \A d \in 0..8 : Cardinality(InDecade(numbers, d)) <= 2

\* the decade balance mattered: 5 or more decades have non-zero scores, a
\* decade holds 2 selected numbers, and a number left out outscores a selected one
C20_Witness ==
  /\ sel.pc = "done"
  /\ Cardinality(NonZeroDecades(sel.scores)) >= 5
  /\ \E d \in 0..8 : Cardinality(InDecade(sel.result.numbers, d)) = 2
  /\ \E n \in Numbers, i \in 1..5 :
        /\ ~Includes(sel.result.numbers, n)
        /\ sel.scores[n] > sel.scores[sel.result.numbers[i]] + 10

\* C17: getDrawsData never throws to its caller - when the store returns an
\* error, on the reload of the cache or on the direct query, the call returns
\* an empty sequence.
C17_GetDrawsNeverThrows ==
  req.pc = "done" =>
     /\ ~req.threw
     /\ req.storeError => Len(req.rows) = 0

ValidNumbers(numbers) ==
  /\ Len(numbers) = 5
  /\ \A i \in 1..Len(numbers) : numbers[i] >= 1 /\ numbers[i] <= 90
  /\ \A i, j \in 1..Len(numbers) : i # j => numbers[i] # numbers[j]

\* C18: POST /evaluate answers 400 and computes no evaluation when the numbers
\* are invalid - not exactly 5, a number outside 1..90, or a duplicate.
C18_InvalidNumbersRejected ==
  (req.pc = "done" /\ req.kind = "evaluate" /\ ~ValidNumbers(req.numbers)) =>
     /\ req.status = 400
     /\ ~req.evaluated

\* C19: with zero draws available (the store answers, with no rows for the
\* request) a prediction request yields an empty selection and confidence 0.
C19_ZeroDrawsEmptySelection ==
  (req.pc = "done" /\ req.kind = "predict" /\ ~req.threw /\ Len(req.rows) = 0) =>
     /\ req.status = 200
     /\ req.selection = << >>
     /\ req.confidence = 0

----------------------------------------------------------------------------
(* Claims about the frame of the correlation booster *)

\* C21: after generateHybridPrediction every number listed in boostedNumbers
\* has a boosted score strictly greater than its main score, every other
\* number's boosted score equals its main score, and the main score map that
\* was passed in is the same after the call.
C21_BoostFrame ==
  [][ (hyb.pc = "input" /\ hyb'.pc = "done") =>
        /\ hyb'.mainScores = hyb.mainScores
        /\ \A w \in Numbers :
             IF w \in hyb'.result.boostedNumbers
             THEN hyb'.result.boostedScores[w] > hyb.mainScores[w] * BoostScale
             ELSE hyb'.result.boostedScores[w] = hyb.mainScores[w] * BoostScale ]_vars

\* a finished call that boosted some numbers, left a scored number alone, and
\* met a listed winning number whose main score is 0
C21_Witness ==
  /\ hyb.pc = "done"
  /\ hyb.result.boostedNumbers # {}
  /\ \E w \in Numbers \ hyb.result.boostedNumbers : hyb.mainScores[w] > 0
  /\ \E i \in 1..Len(hyb.machinePrediction), w \in Numbers :
        /\ Includes(getTopCorrelatedWinning(analyzeWinningMachineCorrelation(hyb.draws),
                                            hyb.machinePrediction[i], TopN), w)
        /\ hyb.mainScores[w] = 0

----------------------------------------------------------------------------
(* Claims about loadBrain *)

\* C22: every brain returned by loadBrain contains every strategy key of the
\* default weights, whatever blob is stored (some keys missing, no weights
\* object, or no blob at all).
C22_LoadedHasDefaultKeys ==
  load.pc = "returned" => WeightKeys \subseteq KeysOf(heap[load.result])

----------------------------------------------------------------------------
(* Claims about the content of a verification result *)

SetOf(seq) == {seq[i] : i \in 1..Len(seq)}

\* a result object compares the predicted numbers with its actual numbers:
\* matches is their intersection, matchCount its size, and nearMisses holds
\* only predicted numbers at distance 1 from an actual number, none a match
ComparesExactly(res, predicted) ==
  /\ SetOf(res.matches) = SetOf(predicted) \cap SetOf(res.actual)
  /\ res.matchCount = Cardinality(SetOf(predicted) \cap SetOf(res.actual))
  /\ Len(res.matches) = res.matchCount
  /\ \A n \in SetOf(res.nearMisses) :
        /\ n \in SetOf(predicted)
        /\ \E a \in SetOf(res.actual) : AbsDiff(a, n) = 1
  /\ SetOf(res.nearMisses) \cap SetOf(res.matches) = {}

\* C23: for every verified entry, result.matches is exactly the intersection
\* of predictedNumbers and the actual winning numbers of a stored draw,
\* matchCount is its size, and nearMisses contains only predicted numbers at
\* distance 1 from an actual number and is disjoint from matches; the same
\* holds for machineResult and hybridResult against their actual sets.
C23_ResultIsComparison ==
  \A i \in 1..Len(historyFile) :
     LET p == historyFile[i]
     IN p.result # NoResult =>
          /\ ComparesExactly(p.result, p.predictedNumbers)
          /\ \E d \in draws :
                /\ d.draw_date = p.result.drawDate /\ d.draw_type_id = p.drawTypeId
                /\ p.result.actual = d.winning
                /\ p.hybridResult # NoResult => p.hybridResult.actual = d.winning
                /\ p.machineResult # NoResult => p.machineResult.actual = d.machine
          /\ p.machineResult # NoResult => ComparesExactly(p.machineResult, p.machineNumbers)
          /\ p.hybridResult # NoResult => ComparesExactly(p.hybridResult, p.hybridNumbers)

\* a verified entry with matches and near misses in all three results
C23_Witness ==
  \E i \in 1..Len(historyFile) :
     /\ historyFile[i].result # NoResult
     /\ historyFile[i].result.matchCount = 2
     /\ Len(historyFile[i].result.nearMisses) = 2
     /\ historyFile[i].machineResult # NoResult
     /\ historyFile[i].machineResult.matchCount = 2
     /\ historyFile[i].machineResult.nearMisses # << >>
     /\ historyFile[i].hybridResult # NoResult
     /\ historyFile[i].hybridResult.nearMisses # << >>

----------------------------------------------------------------------------
(* Claims about the weight adjustment of a Learn step *)

\* the weights the body of learn() call t starts from: those of the cached
\* object, or of the row loadBrain() fetched, or the defaults
WeightsBefore(t) ==
  IF learnTask[t].pc = "idle" THEN heap[learnTask'[t].obj].weights
  ELSE IF learnTask[t].blob # NoBlob THEN learnTask[t].blob.weights
  ELSE defaultWeights

\* the weight of key k after the adjustment and the clamp the claim states
MovedWeight(w, score4) ==
  IF score4 >= 12 THEN w + 100 ELSE IF score4 >= 4 THEN w + 50 ELSE w - 25

HeldWeight(w) == IF w < 50 THEN 50 ELSE IF w > 600 THEN 600 ELSE w

ExpectedWeight(old, scores, k) ==
  IF k = "lstm" THEN old[k] ELSE HeldWeight(MovedWeight(old[k], scores[k]))

ExpectedSum(old, scores) ==
  ExpectedWeight(old, scores, "hot") + ExpectedWeight(old, scores, "due")
  + ExpectedWeight(old, scores, "correlation") + ExpectedWeight(old, scores, "position")
  + ExpectedWeight(old, scores, "balanced") + ExpectedWeight(old, scores, "statistical")
  + ExpectedWeight(old, scores, "finales") + ExpectedWeight(old, scores, "lstm")

----------------------------------------------------------------------------
(* Claims about the callers of learn() *)

\* learn() call t has run its body
HasLearned(t) == learnTask[t].pc \in {"saving", "done"}

\* C25: a given actual draw of a draw type is learned at most once per stream:
\* repeated prediction requests and repeated refresh cycles that see the same
\* latest draw do not again increase stats.totalDraws, change the weights or
\* append to history for it.
C25_LearnedOnce ==
  \A t \in LearnIds, u \in LearnIds :
     (t < u /\ HasLearned(t) /\ HasLearned(u) /\ learnTask[t].stream = learnTask[u].stream)
        => learnTask[t].blob.lastAnalyzedDraw # learnTask[u].blob.lastAnalyzedDraw

----------------------------------------------------------------------------
(* Claims about calculateNumberScores and the hot strategy *)

\* the numbers a list holds, and those numbers with their neighbours
Listed(list) == {list[i] : i \in 1..Len(list)}
WithNeighbours(S) == {n \in Numbers : \E m \in S : AbsDiff(n, m) <= 1}

\* C26: a strategy whose weight is 0 contributes 0 to every score: with
\* weights {hot: 0.5, due: 0.5, all others 0} only the numbers listed by hot
\* or due, and their +-1 neighbours, end with a non-zero score.
C26_ZeroWeightContributesZero ==
  (scoring.pc = "done" /\ scoring.weights = HotDueWeights) =>
     \A n \in Numbers :
        scoring.result.scores[n] # 0 =>
           n \in WithNeighbours(Listed(scoring.hot)
                                \cup {scoring.lists.due[i].number : i \in 1..Len(scoring.lists.due)})

\* C27: the list returned by the hot strategy is in rank order: index 0 holds
\* the most frequent number, every later index is no more frequent than the
\* one before it, and ties are in ascending number order; with 7 in every
\* draw, index 0 of hot is 7.
C27_HotInRankOrder ==
  scoring.pc = "done" =>
     /\ \A i \in 1..(Len(scoring.hot) - 1) :
           \/ Frequency(scoring.draws, scoring.hot[i]) > Frequency(scoring.draws, scoring.hot[i + 1])
           \/ /\ Frequency(scoring.draws, scoring.hot[i]) = Frequency(scoring.draws, scoring.hot[i + 1])
              /\ scoring.hot[i] < scoring.hot[i + 1]
     /\ Len(scoring.draws) > 0 => scoring.hot[1] = 7

\* C28: the neighbour redistribution is single-pass: the bonus a top-15 number
\* n gives to n-1 and n+1 is 0.15 times the score n had before the step
\* began, so the map after the step is the map before it plus those bonuses,
\* whatever the order of processing.
C28_SinglePassNeighbours ==
  scoring.pc = "done" =>
     \A n \in Numbers :
        scoring.result.spread[n] =
           scoring.result.base[n]
           + (IF n > 1 /\ Includes(scoring.result.candidates, n - 1)
              THEN (scoring.result.base[n - 1] * 3) \div 20 ELSE 0)
           + (IF n < 90 /\ Includes(scoring.result.candidates, n + 1)
              THEN (scoring.result.base[n + 1] * 3) \div 20 ELSE 0)

----------------------------------------------------------------------------
(* Claims about the auto-refresh timers *)

\* C29: at any time at most one auto-refresh timer is pending: neither
\* completed manual POST /refresh cycles nor timer firings that are skipped
\* because a refresh is running make the number of scheduled refreshes grow.
C29_OneTimerPending == timers <= 1

\* C30: with a positive refresh interval, from the startup refresh on there is
\* always either a refresh in progress or a refresh timer pending (also after
\* a failed refresh and after a timer fired while a manual refresh was
\* running); every started refresh eventually clears isRefreshing; and
\* whenever no refresh is running, one runs again later (as long as the
\* model has a refreshData() invocation left).
C30_RefreshRecurs ==
  /\ []((listening /\ config.autoRefresh) => (isRefreshing \/ timers > 0))
  /\ (isRefreshing ~> ~isRefreshing)
  /\ ((listening /\ config.autoRefresh /\ ~isRefreshing)
        ~> (isRefreshing \/ CallsMade = MaxRefresh))

\* after a failed startup refresh and a timer that fired while a manual
\* refresh was running, that refresh has ended and a timer is pending
C30_Witness ==
  /\ config.autoRefresh /\ listening /\ ~isRefreshing /\ timers > 0
  /\ \E r \in RefreshIds : refreshTask[r].pc = "failed"
  /\ \E r \in RefreshIds : refreshTask[r].pc = "skipped"

====
